---- MODULE Spec2Model ----
(***************************************************************************)
(* ARM / AArch64 processor detection and dispatch (src/processor_arm.cpp): *)
(* the feature and CPU catalogs, the feature dependency closures, the      *)
(* target resolver and the backend fallback walk.                          *)
(*                                                                         *)
(* A feature vector (FeatureList<feature_sz>) is modelled as the set of    *)
(* the names of the bits that are set; FeatureBit gives each name its bit  *)
(* number, so that bit / 32 is the 32-bit word that holds it.              *)
(***************************************************************************)
EXTENDS Integers, Sequences, FiniteSets, TLC

\* Number of feature bits set in a feature vector drawn as an input.
MaxPick == 2
\* Number of "+feat" and of "-feat" modifiers drawn for a parsed target.
MaxMods == 1

\* UINT32_MAX as a minimum backend version means "no backend version accepts
\* this name".  The model checker's integers are 32 bits wide and signed, so
\* the model uses the greatest of them: like 4294967295 it exceeds every
\* backend version, which is all the code asks of it.
UINT32_MAX == 2147483647

feature_sz == 3

(***************************************************************************)
(* Build configurations.  _CPU_AARCH64_ selects the AArch64 tables; on     *)
(* AArch32 (_CPU_ARM_) the catalog depends on __ARM_ARCH and on            *)
(* __ARM_ARCH_PROFILE ("" when it is not defined); _OS_DARWIN_ selects the *)
(* sysctl host discovery on AArch64.                                       *)
(***************************************************************************)
Builds ==
    [cpu : {"aarch64"}, os : {"linux", "darwin"}, ARM_ARCH : {8}, ARM_ARCH_PROFILE : {"A"}] \cup
    [cpu : {"arm"}, os : {"linux"}, ARM_ARCH : {6}, ARM_ARCH_PROFILE : {""}] \cup
    [cpu : {"arm"}, os : {"linux"}, ARM_ARCH : {7, 8}, ARM_ARCH_PROFILE : {"", "A", "R", "M"}]

IsAArch64(b) == b.cpu = "aarch64"

\* The least element: the first match of a linear search over indices.
First(S) == CHOOSE i \in S : \A j \in S : i <= j

\* A local variable of the C code: `auto x = v;` followed by Body(x).
With(v, Body(_)) == Body(v)

ArmBuilds == {b \in Builds : ~IsAArch64(b)}

(***************************************************************************)
(* Feature catalog: features_aarch64.h / features_aarch32.h, one record    *)
(* per JL_FEATURE_DEF line, in the order of the header.  fe is the enum    *)
(* name (Feature::fe), name the string handed to the backend.              *)
(***************************************************************************)
feature_names_AArch64 ==
    << [fe |-> "aes", name |-> "aes", bit |-> 3, llvmver |-> 0],
       [fe |-> "sha2", name |-> "sha2", bit |-> 6, llvmver |-> 0],
       [fe |-> "crc", name |-> "crc", bit |-> 7, llvmver |-> 0],
       [fe |-> "lse", name |-> "lse", bit |-> 8, llvmver |-> 0],
       [fe |-> "fullfp16", name |-> "fullfp16", bit |-> 9, llvmver |-> 0],
       [fe |-> "rdm", name |-> "rdm", bit |-> 12, llvmver |-> 0],
       [fe |-> "jsconv", name |-> "jsconv", bit |-> 13, llvmver |-> 0],
       [fe |-> "complxnum", name |-> "complxnum", bit |-> 14, llvmver |-> 0],
       [fe |-> "rcpc", name |-> "rcpc", bit |-> 15, llvmver |-> 0],
       [fe |-> "ccpp", name |-> "ccpp", bit |-> 16, llvmver |-> 0],
       [fe |-> "sha3", name |-> "sha3", bit |-> 17, llvmver |-> 0],
       [fe |-> "sm4", name |-> "sm4", bit |-> 19, llvmver |-> 0],
       [fe |-> "dotprod", name |-> "dotprod", bit |-> 20, llvmver |-> 0],
       [fe |-> "sve", name |-> "sve", bit |-> 22, llvmver |-> 0],
       [fe |-> "fp16fml", name |-> "fp16fml", bit |-> 23, llvmver |-> 0],
       [fe |-> "dit", name |-> "dit", bit |-> 24, llvmver |-> 0],
       [fe |-> "rcpc_immo", name |-> "rcpc-immo", bit |-> 26, llvmver |-> 0],
       [fe |-> "flagm", name |-> "flagm", bit |-> 27, llvmver |-> 0],
       [fe |-> "ssbs", name |-> "ssbs", bit |-> 28, llvmver |-> 0],
       [fe |-> "sb", name |-> "sb", bit |-> 29, llvmver |-> 0],
       [fe |-> "pauth", name |-> "pauth", bit |-> 30, llvmver |-> 0],
       [fe |-> "ccdp", name |-> "ccdp", bit |-> 32, llvmver |-> 0],
       [fe |-> "sve2", name |-> "sve2", bit |-> 33, llvmver |-> 0],
       [fe |-> "sve2_aes", name |-> "sve2-aes", bit |-> 34, llvmver |-> 0],
       [fe |-> "sve2_bitperm", name |-> "sve2-bitperm", bit |-> 36, llvmver |-> 0],
       [fe |-> "sve2_sha3", name |-> "sve2-sha3", bit |-> 37, llvmver |-> 0],
       [fe |-> "sve2_sm4", name |-> "sve2-sm4", bit |-> 38, llvmver |-> 0],
       [fe |-> "altnzcv", name |-> "altnzcv", bit |-> 39, llvmver |-> 0],
       [fe |-> "fptoint", name |-> "fptoint", bit |-> 40, llvmver |-> 0],
       [fe |-> "f32mm", name |-> "f32mm", bit |-> 42, llvmver |-> 0],
       [fe |-> "f64mm", name |-> "f64mm", bit |-> 43, llvmver |-> 0],
       [fe |-> "i8mm", name |-> "i8mm", bit |-> 45, llvmver |-> 0],
       [fe |-> "bf16", name |-> "bf16", bit |-> 46, llvmver |-> 0],
       [fe |-> "rand", name |-> "rand", bit |-> 48, llvmver |-> 0],
       [fe |-> "bti", name |-> "bti", bit |-> 49, llvmver |-> 0],
       [fe |-> "mte", name |-> "mte", bit |-> 50, llvmver |-> 0],
       [fe |-> "v8_1a", name |-> "v8_1a", bit |-> 64, llvmver |-> 0],
       [fe |-> "v8_2a", name |-> "v8_2a", bit |-> 65, llvmver |-> 0],
       [fe |-> "v8_3a", name |-> "v8_3a", bit |-> 66, llvmver |-> 0],
       [fe |-> "v8_4a", name |-> "v8_4a", bit |-> 67, llvmver |-> 0],
       [fe |-> "v8_5a", name |-> "v8_5a", bit |-> 68, llvmver |-> 0],
       [fe |-> "v8_6a", name |-> "v8_6a", bit |-> 69, llvmver |-> 110000] >>

feature_names_AArch32 ==
    << [fe |-> "neon", name |-> "neon", bit |-> 12, llvmver |-> 0],
       [fe |-> "vfp3", name |-> "vfp3", bit |-> 13, llvmver |-> 0],
       [fe |-> "vfp4", name |-> "vfp4", bit |-> 16, llvmver |-> 0],
       [fe |-> "hwdiv_arm", name |-> "hwdiv-arm", bit |-> 17, llvmver |-> 0],
       [fe |-> "hwdiv", name |-> "hwdiv", bit |-> 18, llvmver |-> 0],
       [fe |-> "d32", name |-> "d32", bit |-> 19, llvmver |-> 0],
       [fe |-> "crypto", name |-> "crypto", bit |-> 32, llvmver |-> 0],
       [fe |-> "crc", name |-> "crc", bit |-> 36, llvmver |-> 0],
       [fe |-> "aclass", name |-> "aclass", bit |-> 64, llvmver |-> 0],
       [fe |-> "rclass", name |-> "rclass", bit |-> 65, llvmver |-> 0],
       [fe |-> "mclass", name |-> "mclass", bit |-> 66, llvmver |-> 0],
       [fe |-> "v7", name |-> "v7", bit |-> 67, llvmver |-> 0],
       [fe |-> "v8", name |-> "v8", bit |-> 68, llvmver |-> 0],
       [fe |-> "v8_1a", name |-> "v8_1a", bit |-> 69, llvmver |-> 0],
       [fe |-> "v8_2a", name |-> "v8_2a", bit |-> 70, llvmver |-> 0],
       [fe |-> "v8_3a", name |-> "v8_3a", bit |-> 71, llvmver |-> 0],
       [fe |-> "v8_m_main", name |-> "v8_m_main", bit |-> 72, llvmver |-> 0],
       [fe |-> "v8_4a", name |-> "v8_4a", bit |-> 73, llvmver |-> 0],
       [fe |-> "v8_5a", name |-> "v8_5a", bit |-> 74, llvmver |-> 0],
       [fe |-> "v8_6a", name |-> "v8_6a", bit |-> 75, llvmver |-> 110000] >>

feature_names(b) ==
    IF IsAArch64(b) THEN feature_names_AArch64 ELSE feature_names_AArch32

nfeature_names(b) == Len(feature_names(b))

\* Bit number of Feature::fe (the enum built from the same header).
FeatureBit(b, fe) ==
    LET i == CHOOSE i \in 1..nfeature_names(b) : feature_names(b)[i].fe = fe
    IN  feature_names(b)[i].bit

\* get_feature_masks(<every bit of the header>): all the named bits.
feature_masks(b) ==
    {feature_names(b)[i].fe : i \in 1..nfeature_names(b)}

\* feature_masks & {UINT32_MAX, UINT32_MAX, 0}: the third word is dropped.
real_feature_masks(b) ==
    {fe \in feature_masks(b) : FeatureBit(b, fe) \div 32 < 2}

(***************************************************************************)
(* Feature::deps: the (dependent, prerequisite) edges, FeatureDep{enable,  *)
(* dep}, in the order of the source.                                       *)
(***************************************************************************)
deps_AArch64 ==
    << [enable |-> "rcpc_immo", dep |-> "rcpc"],
       [enable |-> "sha3", dep |-> "sha2"],
       [enable |-> "ccdp", dep |-> "ccpp"],
       [enable |-> "sve", dep |-> "fullfp16"],
       [enable |-> "fp16fml", dep |-> "fullfp16"],
       [enable |-> "altnzcv", dep |-> "flagm"],
       [enable |-> "sve2", dep |-> "sve"],
       [enable |-> "sve2_aes", dep |-> "sve2"],
       [enable |-> "sve2_aes", dep |-> "aes"],
       [enable |-> "sve2_bitperm", dep |-> "sve2"],
       [enable |-> "sve2_sha3", dep |-> "sve2"],
       [enable |-> "sve2_sha3", dep |-> "sha3"],
       [enable |-> "sve2_sm4", dep |-> "sve2"],
       [enable |-> "sve2_sm4", dep |-> "sm4"],
       [enable |-> "f32mm", dep |-> "sve"],
       [enable |-> "f64mm", dep |-> "sve"] >>

deps_AArch32 ==
    << [enable |-> "neon", dep |-> "vfp3"],
       [enable |-> "vfp4", dep |-> "vfp3"],
       [enable |-> "crypto", dep |-> "neon"] >>

deps(b) == IF IsAArch64(b) THEN deps_AArch64 ELSE deps_AArch32

(***************************************************************************)
(* namespace Feature and cpus[] of AArch64: the base feature sets, by the  *)
(* names of the source, and the CPU catalog CPUSpec{name, cpu, fallback,   *)
(* llvmver, features}.                                                     *)
(***************************************************************************)
Catalog_AArch64 ==
  LET
      generic == {}
      armv8a_crc == {"crc"}
      armv8a_crc_crypto == armv8a_crc \cup {"aes", "sha2"}
      armv8_1a == armv8a_crc \cup {"v8_1a", "lse", "rdm"}
      armv8_1a_crypto == armv8_1a \cup {"aes", "sha2"}
      armv8_2a == armv8_1a \cup {"v8_2a", "ccpp"}
      armv8_2a_crypto == armv8_2a \cup {"aes", "sha2"}
      armv8_3a == armv8_2a \cup {"v8_3a", "jsconv", "complxnum", "rcpc"}
      armv8_3a_crypto == armv8_3a \cup {"aes", "sha2"}
      armv8_4a == armv8_3a \cup {"v8_4a", "dit", "rcpc_immo", "flagm"}
      armv8_4a_crypto == armv8_4a \cup {"aes", "sha2"}
      armv8_5a == armv8_4a \cup {"v8_5a", "sb", "ccdp", "altnzcv", "fptoint"}
      armv8_5a_crypto == armv8_5a \cup {"aes", "sha2"}
      armv8_6a == armv8_5a \cup {"v8_6a", "i8mm", "bf16"}
      arm_cortex_a34 == armv8a_crc
      arm_cortex_a35 == armv8a_crc
      arm_cortex_a53 == armv8a_crc
      arm_cortex_a55 == armv8_2a \cup {"dotprod", "rcpc", "fullfp16", "ssbs"}
      arm_cortex_a57 == armv8a_crc
      arm_cortex_a65 == armv8_2a \cup {"rcpc", "fullfp16", "ssbs"}
      arm_cortex_a72 == armv8a_crc
      arm_cortex_a73 == armv8a_crc
      arm_cortex_a75 == armv8_2a \cup {"dotprod", "rcpc", "fullfp16"}
      arm_cortex_a76 == armv8_2a \cup {"dotprod", "rcpc", "fullfp16", "ssbs"}
      arm_cortex_a77 == armv8_2a \cup {"dotprod", "rcpc", "fullfp16", "ssbs"}
      arm_cortex_a78 == armv8_2a \cup {"dotprod", "rcpc", "fullfp16", "ssbs"}
      arm_cortex_x1 == armv8_2a \cup {"dotprod", "rcpc", "fullfp16", "ssbs"}
      arm_neoverse_e1 == armv8_2a \cup {"rcpc", "fullfp16", "ssbs"}
      arm_neoverse_n1 == armv8_2a \cup {"dotprod", "rcpc", "fullfp16", "ssbs"}
      arm_neoverse_v1 == armv8_4a \cup {"sve", "i8mm", "bf16", "fullfp16", "ssbs", "rand"}
      arm_neoverse_n2 == armv8_5a \cup {"sve", "i8mm", "bf16", "fullfp16", "sve2", "sve2_bitperm", "rand", "mte"}
      cavium_thunderx == armv8a_crc_crypto
      cavium_thunderx88 == armv8a_crc_crypto
      cavium_thunderx88p1 == armv8a_crc_crypto
      cavium_thunderx81 == armv8a_crc_crypto
      cavium_thunderx83 == armv8a_crc_crypto
      cavium_thunderx2t99 == armv8_1a_crypto
      cavium_thunderx2t99p1 == cavium_thunderx2t99
      cavium_octeontx2 == armv8_2a_crypto
      fujitsu_a64fx == armv8_2a \cup {"sha2", "fullfp16", "sve", "complxnum"}
      hisilicon_tsv110 == armv8_2a_crypto \cup {"dotprod", "fullfp16"}
      hxt_phecda == armv8a_crc_crypto
      marvell_thunderx3t110 == armv8_3a_crypto
      nvidia_denver1 == generic
      nvidia_denver2 == armv8a_crc_crypto
      nvidia_carmel == armv8_2a_crypto \cup {"fullfp16"}
      apm_xgene1 == generic
      apm_xgene2 == generic
      apm_xgene3 == generic
      qualcomm_kyro == armv8a_crc_crypto
      qualcomm_falkor == armv8a_crc_crypto \cup {"rdm"}
      qualcomm_saphira == armv8_4a_crypto
      samsung_exynos_m1 == armv8a_crc_crypto
      samsung_exynos_m2 == armv8a_crc_crypto
      samsung_exynos_m3 == armv8a_crc_crypto
      samsung_exynos_m4 == armv8_2a_crypto \cup {"dotprod", "fullfp16"}
      samsung_exynos_m5 == samsung_exynos_m4
      apple_a7 == armv8a_crc_crypto
      apple_a10 == armv8a_crc_crypto \cup {"rdm"}
      apple_a11 == armv8_2a_crypto \cup {"fullfp16"}
      apple_a12 == armv8_3a_crypto \cup {"fullfp16"}
      apple_a13 == armv8_4a_crypto \cup {"fp16fml", "fullfp16", "sha3"}
      apple_a14 == armv8_5a_crypto \cup {"dotprod", "fp16fml", "fullfp16", "sha3"}
      apple_a15 == armv8_5a_crypto \cup {"dotprod", "fp16fml", "fullfp16", "sha3", "i8mm", "bf16"}
      apple_a16 == armv8_5a_crypto \cup {"dotprod", "fp16fml", "fullfp16", "sha3", "i8mm", "bf16"}
      apple_a17 == armv8_5a_crypto \cup {"dotprod", "fp16fml", "fullfp16", "sha3", "i8mm", "bf16"}
      apple_m1 == armv8_5a_crypto \cup {"dotprod", "fp16fml", "fullfp16", "sha3"}
      apple_m2 == armv8_5a_crypto \cup {"dotprod", "fp16fml", "fullfp16", "sha3", "i8mm", "bf16"}
      apple_m3 == armv8_5a_crypto \cup {"dotprod", "fp16fml", "fullfp16", "sha3", "i8mm", "bf16"}
      apple_m4 == armv8_5a_crypto \cup {"dotprod", "fp16fml", "fullfp16", "sha3", "i8mm", "bf16"}
      apple_s4 == apple_a12
      apple_s5 == apple_a12
  IN  [Feature |->
      [generic |-> generic, armv8a_crc |-> armv8a_crc,
        armv8a_crc_crypto |-> armv8a_crc_crypto, armv8_1a |-> armv8_1a,
        armv8_1a_crypto |-> armv8_1a_crypto, armv8_2a |-> armv8_2a,
        armv8_2a_crypto |-> armv8_2a_crypto, armv8_3a |-> armv8_3a,
        armv8_3a_crypto |-> armv8_3a_crypto, armv8_4a |-> armv8_4a,
        armv8_4a_crypto |-> armv8_4a_crypto, armv8_5a |-> armv8_5a,
        armv8_5a_crypto |-> armv8_5a_crypto, armv8_6a |-> armv8_6a,
        arm_cortex_a34 |-> arm_cortex_a34, arm_cortex_a35 |-> arm_cortex_a35,
        arm_cortex_a53 |-> arm_cortex_a53, arm_cortex_a55 |-> arm_cortex_a55,
        arm_cortex_a57 |-> arm_cortex_a57, arm_cortex_a65 |-> arm_cortex_a65,
        arm_cortex_a72 |-> arm_cortex_a72, arm_cortex_a73 |-> arm_cortex_a73,
        arm_cortex_a75 |-> arm_cortex_a75, arm_cortex_a76 |-> arm_cortex_a76,
        arm_cortex_a77 |-> arm_cortex_a77, arm_cortex_a78 |-> arm_cortex_a78,
        arm_cortex_x1 |-> arm_cortex_x1, arm_neoverse_e1 |-> arm_neoverse_e1,
        arm_neoverse_n1 |-> arm_neoverse_n1, arm_neoverse_v1 |-> arm_neoverse_v1,
        arm_neoverse_n2 |-> arm_neoverse_n2, cavium_thunderx |-> cavium_thunderx,
        cavium_thunderx88 |-> cavium_thunderx88, cavium_thunderx88p1 |-> cavium_thunderx88p1,
        cavium_thunderx81 |-> cavium_thunderx81, cavium_thunderx83 |-> cavium_thunderx83,
        cavium_thunderx2t99 |-> cavium_thunderx2t99,
        cavium_thunderx2t99p1 |-> cavium_thunderx2t99p1, cavium_octeontx2 |-> cavium_octeontx2,
        fujitsu_a64fx |-> fujitsu_a64fx, hisilicon_tsv110 |-> hisilicon_tsv110,
        hxt_phecda |-> hxt_phecda, marvell_thunderx3t110 |-> marvell_thunderx3t110,
        nvidia_denver1 |-> nvidia_denver1, nvidia_denver2 |-> nvidia_denver2,
        nvidia_carmel |-> nvidia_carmel, apm_xgene1 |-> apm_xgene1, apm_xgene2 |-> apm_xgene2,
        apm_xgene3 |-> apm_xgene3, qualcomm_kyro |-> qualcomm_kyro,
        qualcomm_falkor |-> qualcomm_falkor, qualcomm_saphira |-> qualcomm_saphira,
        samsung_exynos_m1 |-> samsung_exynos_m1, samsung_exynos_m2 |-> samsung_exynos_m2,
        samsung_exynos_m3 |-> samsung_exynos_m3, samsung_exynos_m4 |-> samsung_exynos_m4,
        samsung_exynos_m5 |-> samsung_exynos_m5, apple_a7 |-> apple_a7,
        apple_a10 |-> apple_a10, apple_a11 |-> apple_a11, apple_a12 |-> apple_a12,
        apple_a13 |-> apple_a13, apple_a14 |-> apple_a14, apple_a15 |-> apple_a15,
        apple_a16 |-> apple_a16, apple_a17 |-> apple_a17, apple_m1 |-> apple_m1,
        apple_m2 |-> apple_m2, apple_m3 |-> apple_m3, apple_m4 |-> apple_m4,
        apple_s4 |-> apple_s4, apple_s5 |-> apple_s5],
       cpus |->
    <<
       [name |-> "generic", cpu |-> "generic", fallback |-> "generic", llvmver |-> 0,
        features |-> generic],
       [name |-> "armv8.1-a", cpu |-> "armv8_1_a", fallback |-> "generic", llvmver |-> 0,
        features |-> armv8_1a],
       [name |-> "armv8.2-a", cpu |-> "armv8_2_a", fallback |-> "generic", llvmver |-> 0,
        features |-> armv8_2a],
       [name |-> "armv8.3_a", cpu |-> "armv8_3_a", fallback |-> "generic", llvmver |-> 0,
        features |-> armv8_3a],
       [name |-> "armv8.4-a", cpu |-> "armv8_4_a", fallback |-> "generic", llvmver |-> 0,
        features |-> armv8_4a],
       [name |-> "armv8.5-a", cpu |-> "armv8_5_a", fallback |-> "generic", llvmver |-> 0,
        features |-> armv8_5a],
       [name |-> "armv8.6_a", cpu |-> "armv8_6_a", fallback |-> "generic", llvmver |-> 0,
        features |-> armv8_6a],
       [name |-> "cortex-a34", cpu |-> "arm_cortex_a34", fallback |-> "arm_cortex_a35", llvmver |-> 110000,
        features |-> arm_cortex_a34],
       [name |-> "cortex-a35", cpu |-> "arm_cortex_a35", fallback |-> "generic", llvmver |-> 0,
        features |-> arm_cortex_a35],
       [name |-> "cortex-a53", cpu |-> "arm_cortex_a53", fallback |-> "generic", llvmver |-> 0,
        features |-> arm_cortex_a53],
       [name |-> "cortex-a55", cpu |-> "arm_cortex_a55", fallback |-> "generic", llvmver |-> 0,
        features |-> arm_cortex_a55],
       [name |-> "cortex-a57", cpu |-> "arm_cortex_a57", fallback |-> "generic", llvmver |-> 0,
        features |-> arm_cortex_a57],
       [name |-> "cortex-a65", cpu |-> "arm_cortex_a65", fallback |-> "arm_cortex_a75", llvmver |-> 100000,
        features |-> arm_cortex_a65],
       [name |-> "cortex-a65ae", cpu |-> "arm_cortex_a65ae", fallback |-> "arm_cortex_a75", llvmver |-> 100000,
        features |-> arm_cortex_a65],
       [name |-> "cortex-a72", cpu |-> "arm_cortex_a72", fallback |-> "generic", llvmver |-> 0,
        features |-> arm_cortex_a72],
       [name |-> "cortex-a73", cpu |-> "arm_cortex_a73", fallback |-> "generic", llvmver |-> 0,
        features |-> arm_cortex_a73],
       [name |-> "cortex-a75", cpu |-> "arm_cortex_a75", fallback |-> "generic", llvmver |-> 0,
        features |-> arm_cortex_a75],
       [name |-> "cortex-a76", cpu |-> "arm_cortex_a76", fallback |-> "generic", llvmver |-> 0,
        features |-> arm_cortex_a76],
       [name |-> "cortex-a76ae", cpu |-> "arm_cortex_a76ae", fallback |-> "generic", llvmver |-> 0,
        features |-> arm_cortex_a76],
       [name |-> "cortex-a77", cpu |-> "arm_cortex_a77", fallback |-> "arm_cortex_a76", llvmver |-> 110000,
        features |-> arm_cortex_a77],
       [name |-> "cortex-a78", cpu |-> "arm_cortex_a78", fallback |-> "arm_cortex_a77", llvmver |-> 110000,
        features |-> arm_cortex_a78],
       [name |-> "cortex-x1", cpu |-> "arm_cortex_x1", fallback |-> "arm_cortex_a78", llvmver |-> 110000,
        features |-> arm_cortex_x1],
       [name |-> "neoverse-e1", cpu |-> "arm_neoverse_e1", fallback |-> "arm_cortex_a76", llvmver |-> 100000,
        features |-> arm_neoverse_e1],
       [name |-> "neoverse-n1", cpu |-> "arm_neoverse_n1", fallback |-> "arm_cortex_a76", llvmver |-> 100000,
        features |-> arm_neoverse_n1],
       [name |-> "neoverse-v1", cpu |-> "arm_neoverse_v1", fallback |-> "arm_neoverse_n1", llvmver |-> UINT32_MAX,
        features |-> arm_neoverse_v1],
       [name |-> "neoverse-n2", cpu |-> "arm_neoverse_n2", fallback |-> "arm_neoverse_n1", llvmver |-> UINT32_MAX,
        features |-> arm_neoverse_n2],
       [name |-> "thunderx", cpu |-> "cavium_thunderx", fallback |-> "generic", llvmver |-> 0,
        features |-> cavium_thunderx],
       [name |-> "thunderxt88", cpu |-> "cavium_thunderx88", fallback |-> "generic", llvmver |-> 0,
        features |-> cavium_thunderx88],
       [name |-> "thunderxt88p1", cpu |-> "cavium_thunderx88p1", fallback |-> "cavium_thunderx88", llvmver |-> UINT32_MAX,
        features |-> cavium_thunderx88p1],
       [name |-> "thunderxt81", cpu |-> "cavium_thunderx81", fallback |-> "generic", llvmver |-> 0,
        features |-> cavium_thunderx81],
       [name |-> "thunderxt83", cpu |-> "cavium_thunderx83", fallback |-> "generic", llvmver |-> 0,
        features |-> cavium_thunderx83],
       [name |-> "thunderx2t99", cpu |-> "cavium_thunderx2t99", fallback |-> "generic", llvmver |-> 0,
        features |-> cavium_thunderx2t99],
       [name |-> "thunderx2t99p1", cpu |-> "cavium_thunderx2t99p1", fallback |-> "cavium_thunderx2t99", llvmver |-> UINT32_MAX,
        features |-> cavium_thunderx2t99p1],
       [name |-> "octeontx2", cpu |-> "cavium_octeontx2", fallback |-> "arm_cortex_a57", llvmver |-> UINT32_MAX,
        features |-> cavium_octeontx2],
       [name |-> "octeontx2t98", cpu |-> "cavium_octeontx2t98", fallback |-> "arm_cortex_a57", llvmver |-> UINT32_MAX,
        features |-> cavium_octeontx2],
       [name |-> "octeontx2t96", cpu |-> "cavium_octeontx2t96", fallback |-> "arm_cortex_a57", llvmver |-> UINT32_MAX,
        features |-> cavium_octeontx2],
       [name |-> "octeontx2f95", cpu |-> "cavium_octeontx2f95", fallback |-> "arm_cortex_a57", llvmver |-> UINT32_MAX,
        features |-> cavium_octeontx2],
       [name |-> "octeontx2f95n", cpu |-> "cavium_octeontx2f95n", fallback |-> "arm_cortex_a57", llvmver |-> UINT32_MAX,
        features |-> cavium_octeontx2],
       [name |-> "octeontx2f95mm", cpu |-> "cavium_octeontx2f95mm", fallback |-> "arm_cortex_a57", llvmver |-> UINT32_MAX,
        features |-> cavium_octeontx2],
       [name |-> "a64fx", cpu |-> "fujitsu_a64fx", fallback |-> "generic", llvmver |-> 110000,
        features |-> fujitsu_a64fx],
       [name |-> "tsv110", cpu |-> "hisilicon_tsv110", fallback |-> "generic", llvmver |-> 0,
        features |-> hisilicon_tsv110],
       [name |-> "phecda", cpu |-> "hxt_phecda", fallback |-> "qualcomm_falkor", llvmver |-> UINT32_MAX,
        features |-> hxt_phecda],
       [name |-> "denver1", cpu |-> "nvidia_denver1", fallback |-> "generic", llvmver |-> UINT32_MAX,
        features |-> nvidia_denver1],
       [name |-> "denver2", cpu |-> "nvidia_denver2", fallback |-> "generic", llvmver |-> UINT32_MAX,
        features |-> nvidia_denver2],
       [name |-> "carmel", cpu |-> "nvidia_carmel", fallback |-> "generic", llvmver |-> 110000,
        features |-> nvidia_carmel],
       [name |-> "xgene1", cpu |-> "apm_xgene1", fallback |-> "generic", llvmver |-> UINT32_MAX,
        features |-> apm_xgene1],
       [name |-> "xgene2", cpu |-> "apm_xgene2", fallback |-> "generic", llvmver |-> UINT32_MAX,
        features |-> apm_xgene2],
       [name |-> "xgene3", cpu |-> "apm_xgene3", fallback |-> "generic", llvmver |-> UINT32_MAX,
        features |-> apm_xgene3],
       [name |-> "kyro", cpu |-> "qualcomm_kyro", fallback |-> "generic", llvmver |-> 0,
        features |-> qualcomm_kyro],
       [name |-> "falkor", cpu |-> "qualcomm_falkor", fallback |-> "generic", llvmver |-> 0,
        features |-> qualcomm_falkor],
       [name |-> "saphira", cpu |-> "qualcomm_saphira", fallback |-> "generic", llvmver |-> 0,
        features |-> qualcomm_saphira],
       [name |-> "exynos-m1", cpu |-> "samsung_exynos_m1", fallback |-> "generic", llvmver |-> UINT32_MAX,
        features |-> samsung_exynos_m1],
       [name |-> "exynos-m2", cpu |-> "samsung_exynos_m2", fallback |-> "generic", llvmver |-> UINT32_MAX,
        features |-> samsung_exynos_m2],
       [name |-> "exynos-m3", cpu |-> "samsung_exynos_m3", fallback |-> "generic", llvmver |-> 0,
        features |-> samsung_exynos_m3],
       [name |-> "exynos-m4", cpu |-> "samsung_exynos_m4", fallback |-> "generic", llvmver |-> 0,
        features |-> samsung_exynos_m4],
       [name |-> "exynos-m5", cpu |-> "samsung_exynos_m5", fallback |-> "samsung_exynos_m4", llvmver |-> 110000,
        features |-> samsung_exynos_m5],
       [name |-> "apple-a7", cpu |-> "apple_a7", fallback |-> "generic", llvmver |-> 100000,
        features |-> apple_a7],
       [name |-> "apple-a8", cpu |-> "apple_a8", fallback |-> "generic", llvmver |-> 100000,
        features |-> apple_a7],
       [name |-> "apple-a9", cpu |-> "apple_a9", fallback |-> "generic", llvmver |-> 100000,
        features |-> apple_a7],
       [name |-> "apple-a10", cpu |-> "apple_a10", fallback |-> "generic", llvmver |-> 100000,
        features |-> apple_a10],
       [name |-> "apple-a11", cpu |-> "apple_a11", fallback |-> "generic", llvmver |-> 100000,
        features |-> apple_a11],
       [name |-> "apple-a12", cpu |-> "apple_a12", fallback |-> "generic", llvmver |-> 100000,
        features |-> apple_a12],
       [name |-> "apple-a13", cpu |-> "apple_a13", fallback |-> "generic", llvmver |-> 100000,
        features |-> apple_a13],
       [name |-> "apple-a14", cpu |-> "apple_a14", fallback |-> "apple_a13", llvmver |-> 120000,
        features |-> apple_a14],
       [name |-> "apple-a15", cpu |-> "apple_a15", fallback |-> "apple_a14", llvmver |-> 160000,
        features |-> apple_a15],
       [name |-> "apple-a16", cpu |-> "apple_a16", fallback |-> "apple_a14", llvmver |-> 160000,
        features |-> apple_a16],
       [name |-> "apple-a17", cpu |-> "apple_a17", fallback |-> "apple_a16", llvmver |-> 190000,
        features |-> apple_a17],
       [name |-> "apple-m1", cpu |-> "apple_m1", fallback |-> "apple_a14", llvmver |-> 130000,
        features |-> apple_m1],
       [name |-> "apple-m2", cpu |-> "apple_m2", fallback |-> "apple_m1", llvmver |-> 160000,
        features |-> apple_m2],
       [name |-> "apple-m3", cpu |-> "apple_m3", fallback |-> "apple_m2", llvmver |-> 180000,
        features |-> apple_m3],
       [name |-> "apple-m4", cpu |-> "apple_m4", fallback |-> "apple_m3", llvmver |-> 190000,
        features |-> apple_m4],
       [name |-> "apple-s4", cpu |-> "apple_s4", fallback |-> "generic", llvmver |-> 100000,
        features |-> apple_s4],
       [name |-> "apple-s5", cpu |-> "apple_s5", fallback |-> "generic", llvmver |-> 100000,
        features |-> apple_s5],
       [name |-> "thunderx3t110", cpu |-> "marvell_thunderx3t110", fallback |-> "cavium_thunderx2t99", llvmver |-> 110000,
        features |-> marvell_thunderx3t110]
    >>]

Feature_AArch64 == Catalog_AArch64.Feature

cpus_AArch64 == Catalog_AArch64.cpus

\* __ARM_ARCH / __ARM_ARCH_PROFILE select `generic` (the feature requirement
\* of the C code); every other set is or'ed with it.
generic_AArch32(b) ==
    LET _armv7m == {"v7", "mclass", "hwdiv"}
        _armv7a == {"v7", "aclass"}
        _armv7r == {"v7", "rclass"}
        _armv8m == {"v7", "v8", "mclass", "hwdiv"}
        _armv8a == {"v7", "v8", "aclass", "neon", "vfp3", "vfp4", "d32", "hwdiv", "hwdiv_arm"}
        _armv8r == {"v7", "v8", "rclass", "neon", "vfp3", "vfp4", "d32", "hwdiv", "hwdiv_arm"}
    IN  IF b.ARM_ARCH >= 8
        THEN CASE b.ARM_ARCH_PROFILE = "" -> {"v7", "v8", "hwdiv"}
               [] b.ARM_ARCH_PROFILE = "A" -> _armv8a
               [] b.ARM_ARCH_PROFILE = "R" -> _armv8r
               [] b.ARM_ARCH_PROFILE = "M" -> _armv8m
               [] OTHER -> {"v7", "v8", "hwdiv"}
        ELSE IF b.ARM_ARCH = 7
        THEN CASE b.ARM_ARCH_PROFILE = "" -> {"v7"}
               [] b.ARM_ARCH_PROFILE = "A" -> _armv7a
               [] b.ARM_ARCH_PROFILE = "R" -> _armv7r
               [] b.ARM_ARCH_PROFILE = "M" -> _armv7m
               [] OTHER -> {"v7"}
        ELSE {}

(***************************************************************************)
(* namespace Feature and cpus[] of AArch32, for each build.  TLC evaluates *)
(* [b \in S |-> e] anew at every application until the function has been  *)
(* compared; "tab = tab" makes it tabulate the catalogs once.              *)
(***************************************************************************)
Catalog_AArch32 ==
  LET tab ==
  [b \in ArmBuilds |->
  LET
      generic == generic_AArch32(b)
      _armv7m == {"v7", "mclass", "hwdiv"}
      _armv7a == {"v7", "aclass"}
      _armv7r == {"v7", "rclass"}
      _armv8m == {"v7", "v8", "mclass", "hwdiv"}
      _armv8a == {"v7", "v8", "aclass", "neon", "vfp3", "vfp4", "d32", "hwdiv", "hwdiv_arm"}
      _armv8r == {"v7", "v8", "rclass", "neon", "vfp3", "vfp4", "d32", "hwdiv", "hwdiv_arm"}
      armv7m == generic \cup _armv7m
      armv7a == generic \cup _armv7a
      armv7r == generic \cup _armv7r
      armv8m == generic \cup _armv8m
      armv8a == generic \cup _armv8a
      armv8r == generic \cup _armv8r
      arm_cortex_a5 == armv7a
      arm_cortex_a7 == armv7a \cup {"vfp3", "vfp4", "neon"}
      arm_cortex_a8 == armv7a \cup {"d32", "vfp3", "neon"}
      arm_cortex_a9 == armv7a
      arm_cortex_a12 == armv7a \cup {"d32", "vfp3", "vfp4", "neon"}
      arm_cortex_a15 == armv7a \cup {"d32", "vfp3", "vfp4", "neon"}
      arm_cortex_a17 == armv7a \cup {"d32", "vfp3", "vfp4", "neon"}
      arm_cortex_r4 == armv7r \cup {"vfp3", "hwdiv"}
      arm_cortex_r5 == armv7r \cup {"vfp3", "hwdiv", "hwdiv_arm"}
      arm_cortex_r7 == armv7r \cup {"vfp3", "hwdiv", "hwdiv_arm"}
      arm_cortex_r8 == armv7r \cup {"vfp3", "hwdiv", "hwdiv_arm"}
      qualcomm_scorpion == armv7a \cup {"v7", "aclass", "vfp3", "neon"}
      qualcomm_krait == armv7a \cup {"vfp3", "vfp4", "neon", "hwdiv", "hwdiv_arm"}
      apple_swift == armv7a \cup {"d32", "vfp3", "vfp4", "neon", "hwdiv", "hwdiv_arm"}
      marvell_pj4 == armv7a \cup {"vfp3"}
      intel_3735d == armv7a \cup {"vfp3", "neon"}
      arm_cortex_m23 == armv8m
      arm_cortex_m33 == armv8m \cup {"v8_m_main"}
      armv8a_crc == armv8a \cup {"crc"}
      armv8_1a == armv8a_crc \cup {"v8_1a"}
      armv8_2a == armv8_1a \cup {"v8_2a"}
      armv8a_crc_crypto == armv8a_crc \cup {"crypto"}
      armv8_2a_crypto == armv8_2a \cup {"crypto"}
      armv8_3a == armv8_2a \cup {"v8_3a"}
      armv8_3a_crypto == armv8_3a \cup {"crypto"}
      armv8_4a == armv8_3a \cup {"v8_4a"}
      armv8_4a_crypto == armv8_4a \cup {"crypto"}
      armv8_5a == armv8_4a \cup {"v8_5a"}
      armv8_5a_crypto == armv8_5a \cup {"crypto"}
      armv8_6a == armv8_5a \cup {"v8_6a"}
      armv8_6a_crypto == armv8_6a \cup {"crypto"}
      arm_cortex_a32 == armv8a_crc
      arm_cortex_r52 == armv8a_crc
      arm_cortex_a35 == armv8a_crc
      arm_cortex_a53 == armv8a_crc
      arm_cortex_a55 == armv8_2a
      arm_cortex_a57 == armv8a_crc
      arm_cortex_a72 == armv8a_crc
      arm_cortex_a73 == armv8a_crc
      arm_cortex_a75 == armv8_2a
      arm_cortex_a76 == armv8_2a
      arm_cortex_a77 == armv8_2a
      arm_cortex_a78 == armv8_2a
      arm_cortex_x1 == armv8_2a
      arm_neoverse_n1 == armv8_2a
      arm_neoverse_v1 == armv8_4a
      arm_neoverse_n2 == armv8_5a
      nvidia_denver1 == armv8a
      nvidia_denver2 == armv8a_crc_crypto
      apm_xgene1 == armv8a
      apm_xgene2 == armv8a
      apm_xgene3 == armv8a
      qualcomm_kyro == armv8a_crc_crypto
      qualcomm_falkor == armv8a_crc_crypto
      qualcomm_saphira == armv8_3a_crypto
      samsung_exynos_m1 == armv8a_crc_crypto
      samsung_exynos_m2 == armv8a_crc_crypto
      samsung_exynos_m3 == armv8a_crc_crypto
      samsung_exynos_m4 == armv8_2a_crypto
      samsung_exynos_m5 == samsung_exynos_m4
      apple_a7 == armv8a_crc_crypto
  IN  [Feature |->
      [generic |-> generic, _armv7m |-> _armv7m, _armv7a |-> _armv7a, _armv7r |-> _armv7r, _armv8m |-> _armv8m,
        _armv8a |-> _armv8a, _armv8r |-> _armv8r, armv7m |-> armv7m, armv7a |-> armv7a,
        armv7r |-> armv7r, armv8m |-> armv8m, armv8a |-> armv8a, armv8r |-> armv8r,
        arm_cortex_a5 |-> arm_cortex_a5, arm_cortex_a7 |-> arm_cortex_a7,
        arm_cortex_a8 |-> arm_cortex_a8, arm_cortex_a9 |-> arm_cortex_a9,
        arm_cortex_a12 |-> arm_cortex_a12, arm_cortex_a15 |-> arm_cortex_a15,
        arm_cortex_a17 |-> arm_cortex_a17, arm_cortex_r4 |-> arm_cortex_r4,
        arm_cortex_r5 |-> arm_cortex_r5, arm_cortex_r7 |-> arm_cortex_r7,
        arm_cortex_r8 |-> arm_cortex_r8, qualcomm_scorpion |-> qualcomm_scorpion,
        qualcomm_krait |-> qualcomm_krait, apple_swift |-> apple_swift,
        marvell_pj4 |-> marvell_pj4, intel_3735d |-> intel_3735d,
        arm_cortex_m23 |-> arm_cortex_m23, arm_cortex_m33 |-> arm_cortex_m33,
        armv8a_crc |-> armv8a_crc, armv8_1a |-> armv8_1a, armv8_2a |-> armv8_2a,
        armv8a_crc_crypto |-> armv8a_crc_crypto, armv8_2a_crypto |-> armv8_2a_crypto,
        armv8_3a |-> armv8_3a, armv8_3a_crypto |-> armv8_3a_crypto, armv8_4a |-> armv8_4a,
        armv8_4a_crypto |-> armv8_4a_crypto, armv8_5a |-> armv8_5a,
        armv8_5a_crypto |-> armv8_5a_crypto, armv8_6a |-> armv8_6a,
        armv8_6a_crypto |-> armv8_6a_crypto, arm_cortex_a32 |-> arm_cortex_a32,
        arm_cortex_r52 |-> arm_cortex_r52, arm_cortex_a35 |-> arm_cortex_a35,
        arm_cortex_a53 |-> arm_cortex_a53, arm_cortex_a55 |-> arm_cortex_a55,
        arm_cortex_a57 |-> arm_cortex_a57, arm_cortex_a72 |-> arm_cortex_a72,
        arm_cortex_a73 |-> arm_cortex_a73, arm_cortex_a75 |-> arm_cortex_a75,
        arm_cortex_a76 |-> arm_cortex_a76, arm_cortex_a77 |-> arm_cortex_a77,
        arm_cortex_a78 |-> arm_cortex_a78, arm_cortex_x1 |-> arm_cortex_x1,
        arm_neoverse_n1 |-> arm_neoverse_n1, arm_neoverse_v1 |-> arm_neoverse_v1,
        arm_neoverse_n2 |-> arm_neoverse_n2, nvidia_denver1 |-> nvidia_denver1,
        nvidia_denver2 |-> nvidia_denver2, apm_xgene1 |-> apm_xgene1,
        apm_xgene2 |-> apm_xgene2, apm_xgene3 |-> apm_xgene3, qualcomm_kyro |-> qualcomm_kyro,
        qualcomm_falkor |-> qualcomm_falkor, qualcomm_saphira |-> qualcomm_saphira,
        samsung_exynos_m1 |-> samsung_exynos_m1, samsung_exynos_m2 |-> samsung_exynos_m2,
        samsung_exynos_m3 |-> samsung_exynos_m3, samsung_exynos_m4 |-> samsung_exynos_m4,
        samsung_exynos_m5 |-> samsung_exynos_m5, apple_a7 |-> apple_a7],
       cpus |->
    <<
       [name |-> "generic", cpu |-> "generic", fallback |-> "generic", llvmver |-> 0,
        features |-> generic],
       [name |-> "mpcore", cpu |-> "arm_mpcore", fallback |-> "generic", llvmver |-> 0,
        features |-> generic],
       [name |-> "arm1136jf-s", cpu |-> "arm_1136jf_s", fallback |-> "generic", llvmver |-> 0,
        features |-> generic],
       [name |-> "arm1156t2f-s", cpu |-> "arm_1156t2f_s", fallback |-> "generic", llvmver |-> 0,
        features |-> generic],
       [name |-> "arm1176jzf-s", cpu |-> "arm_1176jzf_s", fallback |-> "generic", llvmver |-> 0,
        features |-> generic],
       [name |-> "cortex-m0", cpu |-> "arm_cortex_m0", fallback |-> "generic", llvmver |-> 0,
        features |-> generic],
       [name |-> "cortex-m1", cpu |-> "arm_cortex_m1", fallback |-> "generic", llvmver |-> 0,
        features |-> generic],
       [name |-> "armv7-m", cpu |-> "armv7_m", fallback |-> "generic", llvmver |-> 0,
        features |-> armv7m],
       [name |-> "armv7e-m", cpu |-> "armv7e_m", fallback |-> "generic", llvmver |-> 0,
        features |-> armv7m],
       [name |-> "cortex-m3", cpu |-> "arm_cortex_m3", fallback |-> "generic", llvmver |-> 0,
        features |-> armv7m],
       [name |-> "cortex-m4", cpu |-> "arm_cortex_m4", fallback |-> "generic", llvmver |-> 0,
        features |-> armv7m],
       [name |-> "cortex-m7", cpu |-> "arm_cortex_m7", fallback |-> "generic", llvmver |-> 0,
        features |-> armv7m],
       [name |-> "armv7-a", cpu |-> "armv7_a", fallback |-> "generic", llvmver |-> 0,
        features |-> armv7a],
       [name |-> "armv7-r", cpu |-> "armv7_r", fallback |-> "generic", llvmver |-> 0,
        features |-> armv7r],
       [name |-> "cortex-a5", cpu |-> "arm_cortex_a5", fallback |-> "generic", llvmver |-> 0,
        features |-> arm_cortex_a5],
       [name |-> "cortex-a7", cpu |-> "arm_cortex_a7", fallback |-> "generic", llvmver |-> 0,
        features |-> arm_cortex_a7],
       [name |-> "cortex-a8", cpu |-> "arm_cortex_a8", fallback |-> "generic", llvmver |-> 0,
        features |-> arm_cortex_a8],
       [name |-> "cortex-a9", cpu |-> "arm_cortex_a9", fallback |-> "generic", llvmver |-> 0,
        features |-> arm_cortex_a9],
       [name |-> "cortex-a12", cpu |-> "arm_cortex_a12", fallback |-> "generic", llvmver |-> 0,
        features |-> arm_cortex_a12],
       [name |-> "cortex-a15", cpu |-> "arm_cortex_a15", fallback |-> "generic", llvmver |-> 0,
        features |-> arm_cortex_a15],
       [name |-> "cortex-a17", cpu |-> "arm_cortex_a17", fallback |-> "generic", llvmver |-> 0,
        features |-> arm_cortex_a17],
       [name |-> "cortex-r4", cpu |-> "arm_cortex_r4", fallback |-> "generic", llvmver |-> 0,
        features |-> arm_cortex_r4],
       [name |-> "cortex-r5", cpu |-> "arm_cortex_r5", fallback |-> "generic", llvmver |-> 0,
        features |-> arm_cortex_r5],
       [name |-> "cortex-r7", cpu |-> "arm_cortex_r7", fallback |-> "generic", llvmver |-> 0,
        features |-> arm_cortex_r7],
       [name |-> "cortex-r8", cpu |-> "arm_cortex_r8", fallback |-> "generic", llvmver |-> 0,
        features |-> arm_cortex_r8],
       [name |-> "scorpion", cpu |-> "qualcomm_scorpion", fallback |-> "armv7_a", llvmver |-> UINT32_MAX,
        features |-> qualcomm_scorpion],
       [name |-> "krait", cpu |-> "qualcomm_krait", fallback |-> "generic", llvmver |-> 0,
        features |-> qualcomm_krait],
       [name |-> "swift", cpu |-> "apple_swift", fallback |-> "generic", llvmver |-> 0,
        features |-> apple_swift],
       [name |-> "pj4", cpu |-> "marvell_pj4", fallback |-> "armv7_a", llvmver |-> UINT32_MAX,
        features |-> marvell_pj4],
       [name |-> "3735d", cpu |-> "intel_3735d", fallback |-> "armv7_a", llvmver |-> UINT32_MAX,
        features |-> intel_3735d],
       [name |-> "armv8-m.base", cpu |-> "armv8_m_base", fallback |-> "generic", llvmver |-> 0,
        features |-> armv8m],
       [name |-> "armv8-m.main", cpu |-> "armv8_m_main", fallback |-> "generic", llvmver |-> 0,
        features |-> armv8m],
       [name |-> "cortex-m23", cpu |-> "arm_cortex_m23", fallback |-> "armv8_m_base", llvmver |-> 0,
        features |-> arm_cortex_m23],
       [name |-> "cortex-m33", cpu |-> "arm_cortex_m33", fallback |-> "armv8_m_main", llvmver |-> 0,
        features |-> arm_cortex_m33],
       [name |-> "armv8-a", cpu |-> "armv8_a", fallback |-> "generic", llvmver |-> 0,
        features |-> armv8a],
       [name |-> "armv8-r", cpu |-> "armv8_r", fallback |-> "generic", llvmver |-> 0,
        features |-> armv8r],
       [name |-> "armv8.1-a", cpu |-> "armv8_1_a", fallback |-> "generic", llvmver |-> 0,
        features |-> armv8_1a],
       [name |-> "armv8.2-a", cpu |-> "armv8_2_a", fallback |-> "generic", llvmver |-> 0,
        features |-> armv8_2a],
       [name |-> "armv8.3-a", cpu |-> "armv8_3_a", fallback |-> "generic", llvmver |-> 0,
        features |-> armv8_3a],
       [name |-> "armv8.4-a", cpu |-> "armv8_4_a", fallback |-> "generic", llvmver |-> 0,
        features |-> armv8_4a],
       [name |-> "armv8.5-a", cpu |-> "armv8_5_a", fallback |-> "generic", llvmver |-> 0,
        features |-> armv8_5a],
       [name |-> "armv8.6_a", cpu |-> "armv8_6_a", fallback |-> "generic", llvmver |-> 0,
        features |-> armv8_6a],
       [name |-> "cortex-a32", cpu |-> "arm_cortex_a32", fallback |-> "generic", llvmver |-> 0,
        features |-> arm_cortex_a32],
       [name |-> "cortex-r52", cpu |-> "arm_cortex_r52", fallback |-> "generic", llvmver |-> 0,
        features |-> arm_cortex_r52],
       [name |-> "cortex-a35", cpu |-> "arm_cortex_a35", fallback |-> "generic", llvmver |-> 0,
        features |-> arm_cortex_a35],
       [name |-> "cortex-a53", cpu |-> "arm_cortex_a53", fallback |-> "generic", llvmver |-> 0,
        features |-> arm_cortex_a53],
       [name |-> "cortex-a55", cpu |-> "arm_cortex_a55", fallback |-> "generic", llvmver |-> 0,
        features |-> arm_cortex_a55],
       [name |-> "cortex-a57", cpu |-> "arm_cortex_a57", fallback |-> "generic", llvmver |-> 0,
        features |-> arm_cortex_a57],
       [name |-> "cortex-a72", cpu |-> "arm_cortex_a72", fallback |-> "generic", llvmver |-> 0,
        features |-> arm_cortex_a72],
       [name |-> "cortex-a73", cpu |-> "arm_cortex_a73", fallback |-> "generic", llvmver |-> 0,
        features |-> arm_cortex_a73],
       [name |-> "cortex-a75", cpu |-> "arm_cortex_a75", fallback |-> "generic", llvmver |-> 0,
        features |-> arm_cortex_a75],
       [name |-> "cortex-a76", cpu |-> "arm_cortex_a76", fallback |-> "generic", llvmver |-> 0,
        features |-> arm_cortex_a76],
       [name |-> "cortex-a76ae", cpu |-> "arm_cortex_a76ae", fallback |-> "generic", llvmver |-> 0,
        features |-> arm_cortex_a76],
       [name |-> "cortex-a77", cpu |-> "arm_cortex_a77", fallback |-> "arm_cortex_a76", llvmver |-> 110000,
        features |-> arm_cortex_a77],
       [name |-> "cortex-a78", cpu |-> "arm_cortex_a78", fallback |-> "arm_cortex_a77", llvmver |-> 110000,
        features |-> arm_cortex_a78],
       [name |-> "cortex-x1", cpu |-> "arm_cortex_x1", fallback |-> "arm_cortex_a78", llvmver |-> 110000,
        features |-> arm_cortex_x1],
       [name |-> "neoverse-n1", cpu |-> "arm_neoverse_n1", fallback |-> "arm_cortex_a76", llvmver |-> 100000,
        features |-> arm_neoverse_n1],
       [name |-> "neoverse-v1", cpu |-> "arm_neoverse_v1", fallback |-> "arm_neoverse_n1", llvmver |-> UINT32_MAX,
        features |-> arm_neoverse_v1],
       [name |-> "neoverse-n2", cpu |-> "arm_neoverse_n2", fallback |-> "arm_neoverse_n1", llvmver |-> UINT32_MAX,
        features |-> arm_neoverse_n2],
       [name |-> "denver1", cpu |-> "nvidia_denver1", fallback |-> "arm_cortex_a53", llvmver |-> UINT32_MAX,
        features |-> nvidia_denver1],
       [name |-> "denver2", cpu |-> "nvidia_denver2", fallback |-> "arm_cortex_a57", llvmver |-> UINT32_MAX,
        features |-> nvidia_denver2],
       [name |-> "xgene1", cpu |-> "apm_xgene1", fallback |-> "armv8_a", llvmver |-> UINT32_MAX,
        features |-> apm_xgene1],
       [name |-> "xgene2", cpu |-> "apm_xgene2", fallback |-> "armv8_a", llvmver |-> UINT32_MAX,
        features |-> apm_xgene2],
       [name |-> "xgene3", cpu |-> "apm_xgene3", fallback |-> "armv8_a", llvmver |-> UINT32_MAX,
        features |-> apm_xgene3],
       [name |-> "kyro", cpu |-> "qualcomm_kyro", fallback |-> "armv8_a", llvmver |-> UINT32_MAX,
        features |-> qualcomm_kyro],
       [name |-> "falkor", cpu |-> "qualcomm_falkor", fallback |-> "armv8_a", llvmver |-> UINT32_MAX,
        features |-> qualcomm_falkor],
       [name |-> "saphira", cpu |-> "qualcomm_saphira", fallback |-> "armv8_a", llvmver |-> UINT32_MAX,
        features |-> qualcomm_saphira],
       [name |-> "exynos-m1", cpu |-> "samsung_exynos_m1", fallback |-> "generic", llvmver |-> UINT32_MAX,
        features |-> samsung_exynos_m1],
       [name |-> "exynos-m2", cpu |-> "samsung_exynos_m2", fallback |-> "generic", llvmver |-> UINT32_MAX,
        features |-> samsung_exynos_m2],
       [name |-> "exynos-m3", cpu |-> "samsung_exynos_m3", fallback |-> "generic", llvmver |-> 0,
        features |-> samsung_exynos_m3],
       [name |-> "exynos-m4", cpu |-> "samsung_exynos_m4", fallback |-> "generic", llvmver |-> 0,
        features |-> samsung_exynos_m4],
       [name |-> "exynos-m5", cpu |-> "samsung_exynos_m5", fallback |-> "samsung_exynos_m4", llvmver |-> 110000,
        features |-> samsung_exynos_m5],
       [name |-> "apple-a7", cpu |-> "apple_a7", fallback |-> "generic", llvmver |-> 0,
        features |-> apple_a7]
    >>]]
  IN IF tab = tab THEN tab ELSE tab

Feature_AArch32(b) == Catalog_AArch32[b].Feature

cpus_AArch32(b) == Catalog_AArch32[b].cpus

\* The second entry of the table carries the id of the first.
cpus_DuplicateId(b) ==
    With(IF IsAArch64(b) THEN cpus_AArch64 ELSE cpus_AArch32(b), LAMBDA tab :
        [tab EXCEPT ![2].cpu = tab[1].cpu])

\* "exynos-m5", which needs a backend version, falls back to itself.
Catalog_SelfFallback ==
    LET tab == [b \in Builds |->
                   With(IF IsAArch64(b) THEN cpus_AArch64 ELSE cpus_AArch32(b), LAMBDA t :
                   With(First({i \in 1..Len(t) : t[i].name = "exynos-m5"}), LAMBDA k :
                       [t EXCEPT ![k].fallback = t[k].cpu]))]
    IN  IF tab = tab THEN tab ELSE tab

cpus_SelfFallback(b) == Catalog_SelfFallback[b]

cpus(b) == IF IsAArch64(b) THEN cpus_AArch64 ELSE cpus_AArch32(b)

ncpu_names(b) == Len(cpus(b))

(***************************************************************************)
(* Catalog lookups.  A `const CPUSpec *` is modelled as an index into      *)
(* cpus[], nullptr as 0.  The searches are linear and return the first     *)
(* match (processor.cpp, ::find_cpu and ::find_cpu_name).                  *)
(***************************************************************************)
nullptr == 0

global_find_cpu(cpu, tab) ==
    LET hits == {i \in 1..Len(tab) : tab[i].cpu = cpu}
    IN  IF hits = {} THEN nullptr ELSE First(hits)

global_find_cpu_by_name(name, tab) ==
    LET hits == {i \in 1..Len(tab) : tab[i].name = name}
    IN  IF hits = {} THEN nullptr ELSE First(hits)

global_find_cpu_name(cpu, tab) ==
    LET spec == global_find_cpu(cpu, tab)
    IN  IF spec # nullptr THEN tab[spec].name ELSE "generic"

\* ARM::find_cpu(uint32_t cpu)
find_cpu(b, cpu) == global_find_cpu(cpu, cpus(b))

\* ARM::find_cpu(llvm::StringRef name)
find_cpu_by_name(b, name) == global_find_cpu_by_name(name, cpus(b))

\* ARM::find_cpu_name(uint32_t cpu)
find_cpu_name(b, cpu) == global_find_cpu_name(cpu, cpus(b))

(***************************************************************************)
(* Feature algebra.                                                        *)
(***************************************************************************)
test_nbit(features, fe) == fe \in features

\* if (test_nbit(features, fe)) set_bit(features, s, true) for every s in S
SetIf(features, fe, S) == IF test_nbit(features, fe) THEN features \cup S ELSE features

\* ::enable_depends(features, deps, ndeps): passes over the edge list, from
\* the last edge to the first, until a pass changes nothing.
RECURSIVE enable_pass(_, _, _)
enable_pass(features, d, i) ==
    IF i = 0 THEN features
    ELSE IF test_nbit(features, d[i].enable) /\ ~test_nbit(features, d[i].dep)
    THEN enable_pass(features \cup {d[i].dep}, d, i - 1)
    ELSE enable_pass(features, d, i - 1)

RECURSIVE global_enable_depends(_, _)
global_enable_depends(features, d) ==
    LET next == enable_pass(features, d, Len(d))
    IN  IF features = next THEN features ELSE global_enable_depends(next, d)

\* ::disable_depends(features, deps, ndeps): the same walk, clearing the
\* dependent bit of every edge whose prerequisite is clear.
RECURSIVE disable_pass(_, _, _)
disable_pass(features, d, i) ==
    IF i = 0 THEN features
    ELSE IF test_nbit(features, d[i].enable) /\ ~test_nbit(features, d[i].dep)
    THEN disable_pass(features \ {d[i].enable}, d, i - 1)
    ELSE disable_pass(features, d, i - 1)

RECURSIVE global_disable_depends(_, _)
global_disable_depends(features, d) ==
    LET next == disable_pass(features, d, Len(d))
    IN  IF features = next THEN features ELSE global_disable_depends(next, d)

\* The architecture version ladder at the head of ARM::enable_depends.
version_ladder(features) ==
    LET f5 == SetIf(features, "v8_6a", {"v8_5a"})
        f4 == SetIf(f5, "v8_5a", {"v8_4a"})
        f3 == SetIf(f4, "v8_4a", {"v8_3a"})
        f2 == SetIf(f3, "v8_3a", {"v8_2a"})
        f1 == SetIf(f2, "v8_2a", {"v8_1a"})
    IN  SetIf(f1, "v8_1a", {"crc"})

\* #ifdef _CPU_ARM_ branch of ARM::enable_depends
arch_unlocks_AArch32(features) ==
    LET f1 == SetIf(features, "v8_1a", {"v8", "aclass"})
        f2 == SetIf(f1, "v8_m_main", {"v8", "mclass"})
        f3 == SetIf(f2, "v8", {"v7"})
    IN  IF test_nbit(f3, "v8") /\ test_nbit(f3, "aclass")
        THEN f3 \cup {"neon", "vfp3", "vfp4", "hwdiv_arm", "hwdiv", "d32"}
        ELSE f3

\* #else branch of ARM::enable_depends (AArch64)
arch_unlocks_AArch64(features) ==
    LET f1 == SetIf(features, "v8_1a", {"lse", "rdm"})
        f2 == SetIf(f1, "v8_2a", {"ccpp"})
        f3 == SetIf(f2, "v8_3a", {"jsconv", "complxnum", "rcpc"})
        f4 == SetIf(f3, "v8_4a", {"dit", "rcpc_immo", "flagm"})
        f5 == SetIf(f4, "v8_5a", {"sb", "ccdp", "altnzcv", "fptoint"})
    IN  SetIf(f5, "v8_6a", {"i8mm", "bf16"})

\* A ladder written bottom-up: each step tests a bit the steps after it set.
enable_depends_LadderBottomUp(b, features) ==
    LET f1 == SetIf(features, "v8_1a", {"crc"})
        f2 == SetIf(f1, "v8_2a", {"v8_1a"})
        f3 == SetIf(f2, "v8_3a", {"v8_2a"})
        f4 == SetIf(f3, "v8_4a", {"v8_3a"})
        f5 == SetIf(f4, "v8_5a", {"v8_4a"})
        f6 == SetIf(f5, "v8_6a", {"v8_5a"})
    IN  global_enable_depends(IF IsAArch64(b) THEN arch_unlocks_AArch64(f6)
                              ELSE arch_unlocks_AArch32(f6), deps(b))

\* The ladder and the unlocks without the walk over Feature::deps.
enable_depends_NoEdgeWalk(b, features) ==
    LET laddered == version_ladder(features)
    IN  IF IsAArch64(b) THEN arch_unlocks_AArch64(laddered)
        ELSE arch_unlocks_AArch32(laddered)

\* ARM::enable_depends
enable_depends(b, features) ==
    LET laddered == version_ladder(features)
    IN  global_enable_depends(IF IsAArch64(b) THEN arch_unlocks_AArch64(laddered)
                              ELSE arch_unlocks_AArch32(laddered), deps(b))

\* The closure of the wrong direction: it sets prerequisites instead of
\* clearing dependents.
disable_depends_Enables(b, features) == global_enable_depends(features, deps(b))

\* ARM::disable_depends
disable_depends(b, features) == global_disable_depends(features, deps(b))

(***************************************************************************)
(* Host discovery.                                                         *)
(***************************************************************************)
\* get_cpu_name(CPUID): the (implementer, part) rows that name a CPU
\* whatever the variant; Cavium 0xa1 and Samsung are decided by the variant.
cpu_parts ==
    <<
       [implementer |-> 65, part |-> 2818, cpu |-> "arm_mpcore"],
       [implementer |-> 65, part |-> 2870, cpu |-> "arm_1136jf_s"],
       [implementer |-> 65, part |-> 2902, cpu |-> "arm_1156t2f_s"],
       [implementer |-> 65, part |-> 2934, cpu |-> "arm_1176jzf_s"],
       [implementer |-> 65, part |-> 3077, cpu |-> "arm_cortex_a5"],
       [implementer |-> 65, part |-> 3079, cpu |-> "arm_cortex_a7"],
       [implementer |-> 65, part |-> 3080, cpu |-> "arm_cortex_a8"],
       [implementer |-> 65, part |-> 3081, cpu |-> "arm_cortex_a9"],
       [implementer |-> 65, part |-> 3085, cpu |-> "arm_cortex_a12"],
       [implementer |-> 65, part |-> 3087, cpu |-> "arm_cortex_a15"],
       [implementer |-> 65, part |-> 3086, cpu |-> "arm_cortex_a17"],
       [implementer |-> 65, part |-> 3092, cpu |-> "arm_cortex_r4"],
       [implementer |-> 65, part |-> 3093, cpu |-> "arm_cortex_r5"],
       [implementer |-> 65, part |-> 3095, cpu |-> "arm_cortex_r7"],
       [implementer |-> 65, part |-> 3096, cpu |-> "arm_cortex_r8"],
       [implementer |-> 65, part |-> 3104, cpu |-> "arm_cortex_m0"],
       [implementer |-> 65, part |-> 3105, cpu |-> "arm_cortex_m1"],
       [implementer |-> 65, part |-> 3107, cpu |-> "arm_cortex_m3"],
       [implementer |-> 65, part |-> 3108, cpu |-> "arm_cortex_m4"],
       [implementer |-> 65, part |-> 3111, cpu |-> "arm_cortex_m7"],
       [implementer |-> 65, part |-> 3329, cpu |-> "arm_cortex_a32"],
       [implementer |-> 65, part |-> 3330, cpu |-> "arm_cortex_a34"],
       [implementer |-> 65, part |-> 3331, cpu |-> "arm_cortex_a53"],
       [implementer |-> 65, part |-> 3332, cpu |-> "arm_cortex_a35"],
       [implementer |-> 65, part |-> 3333, cpu |-> "arm_cortex_a55"],
       [implementer |-> 65, part |-> 3334, cpu |-> "arm_cortex_a65"],
       [implementer |-> 65, part |-> 3335, cpu |-> "arm_cortex_a57"],
       [implementer |-> 65, part |-> 3336, cpu |-> "arm_cortex_a72"],
       [implementer |-> 65, part |-> 3337, cpu |-> "arm_cortex_a73"],
       [implementer |-> 65, part |-> 3338, cpu |-> "arm_cortex_a75"],
       [implementer |-> 65, part |-> 3339, cpu |-> "arm_cortex_a76"],
       [implementer |-> 65, part |-> 3340, cpu |-> "arm_neoverse_n1"],
       [implementer |-> 65, part |-> 3341, cpu |-> "arm_cortex_a77"],
       [implementer |-> 65, part |-> 3342, cpu |-> "arm_cortex_a76ae"],
       [implementer |-> 65, part |-> 3347, cpu |-> "arm_cortex_r52"],
       [implementer |-> 65, part |-> 3360, cpu |-> "arm_cortex_m23"],
       [implementer |-> 65, part |-> 3361, cpu |-> "arm_cortex_m33"],
       [implementer |-> 65, part |-> 3392, cpu |-> "arm_neoverse_v1"],
       [implementer |-> 65, part |-> 3393, cpu |-> "arm_cortex_a78"],
       [implementer |-> 65, part |-> 3395, cpu |-> "arm_cortex_a65ae"],
       [implementer |-> 65, part |-> 3396, cpu |-> "arm_cortex_x1"],
       [implementer |-> 65, part |-> 3401, cpu |-> "arm_neoverse_n2"],
       [implementer |-> 65, part |-> 3402, cpu |-> "arm_neoverse_e1"],
       [implementer |-> 66, part |-> 1302, cpu |-> "cavium_thunderx2t99p1"],
       [implementer |-> 67, part |-> 160, cpu |-> "cavium_thunderx"],
       [implementer |-> 67, part |-> 162, cpu |-> "cavium_thunderx81"],
       [implementer |-> 67, part |-> 163, cpu |-> "cavium_thunderx83"],
       [implementer |-> 67, part |-> 175, cpu |-> "cavium_thunderx2t99"],
       [implementer |-> 67, part |-> 176, cpu |-> "cavium_octeontx2"],
       [implementer |-> 67, part |-> 177, cpu |-> "cavium_octeontx2t98"],
       [implementer |-> 67, part |-> 178, cpu |-> "cavium_octeontx2t96"],
       [implementer |-> 67, part |-> 179, cpu |-> "cavium_octeontx2f95"],
       [implementer |-> 67, part |-> 180, cpu |-> "cavium_octeontx2f95n"],
       [implementer |-> 67, part |-> 181, cpu |-> "cavium_octeontx2f95mm"],
       [implementer |-> 67, part |-> 184, cpu |-> "marvell_thunderx3t110"],
       [implementer |-> 70, part |-> 1, cpu |-> "fujitsu_a64fx"],
       [implementer |-> 72, part |-> 3329, cpu |-> "hisilicon_tsv110"],
       [implementer |-> 72, part |-> 3392, cpu |-> "arm_cortex_a76"],
       [implementer |-> 78, part |-> 0, cpu |-> "nvidia_denver1"],
       [implementer |-> 78, part |-> 3, cpu |-> "nvidia_denver2"],
       [implementer |-> 78, part |-> 4, cpu |-> "nvidia_carmel"],
       [implementer |-> 80, part |-> 0, cpu |-> "apm_xgene1"],
       [implementer |-> 81, part |-> 15, cpu |-> "qualcomm_scorpion"],
       [implementer |-> 81, part |-> 45, cpu |-> "qualcomm_scorpion"],
       [implementer |-> 81, part |-> 77, cpu |-> "qualcomm_krait"],
       [implementer |-> 81, part |-> 111, cpu |-> "qualcomm_krait"],
       [implementer |-> 81, part |-> 513, cpu |-> "qualcomm_kyro"],
       [implementer |-> 81, part |-> 517, cpu |-> "qualcomm_kyro"],
       [implementer |-> 81, part |-> 529, cpu |-> "qualcomm_kyro"],
       [implementer |-> 81, part |-> 2048, cpu |-> "arm_cortex_a73"],
       [implementer |-> 81, part |-> 2049, cpu |-> "arm_cortex_a53"],
       [implementer |-> 81, part |-> 2050, cpu |-> "arm_cortex_a75"],
       [implementer |-> 81, part |-> 2051, cpu |-> "arm_cortex_a55"],
       [implementer |-> 81, part |-> 2052, cpu |-> "arm_cortex_a76"],
       [implementer |-> 81, part |-> 2053, cpu |-> "arm_cortex_a55"],
       [implementer |-> 81, part |-> 3072, cpu |-> "qualcomm_falkor"],
       [implementer |-> 81, part |-> 3073, cpu |-> "qualcomm_saphira"],
       [implementer |-> 86, part |-> 1409, cpu |-> "marvell_pj4"],
       [implementer |-> 86, part |-> 1412, cpu |-> "marvell_pj4"],
       [implementer |-> 97, part |-> 0, cpu |-> "apple_swift"],
       [implementer |-> 97, part |-> 1, cpu |-> "apple_a7"],
       [implementer |-> 97, part |-> 2, cpu |-> "apple_a8"],
       [implementer |-> 97, part |-> 3, cpu |-> "apple_a8"],
       [implementer |-> 97, part |-> 4, cpu |-> "apple_a9"],
       [implementer |-> 97, part |-> 5, cpu |-> "apple_a9"],
       [implementer |-> 97, part |-> 6, cpu |-> "apple_a10"],
       [implementer |-> 97, part |-> 7, cpu |-> "apple_a10"],
       [implementer |-> 97, part |-> 8, cpu |-> "apple_a11"],
       [implementer |-> 97, part |-> 9, cpu |-> "apple_a11"],
       [implementer |-> 97, part |-> 11, cpu |-> "apple_a12"],
       [implementer |-> 97, part |-> 12, cpu |-> "apple_a12"],
       [implementer |-> 97, part |-> 16, cpu |-> "apple_a12"],
       [implementer |-> 97, part |-> 17, cpu |-> "apple_a12"],
       [implementer |-> 97, part |-> 15, cpu |-> "apple_s4"],
       [implementer |-> 97, part |-> 18, cpu |-> "apple_a13"],
       [implementer |-> 97, part |-> 19, cpu |-> "apple_a13"],
       [implementer |-> 97, part |-> 32, cpu |-> "apple_a14"],
       [implementer |-> 97, part |-> 33, cpu |-> "apple_a14"],
       [implementer |-> 97, part |-> 34, cpu |-> "apple_m1"],
       [implementer |-> 97, part |-> 35, cpu |-> "apple_m1"],
       [implementer |-> 97, part |-> 36, cpu |-> "apple_m1"],
       [implementer |-> 97, part |-> 37, cpu |-> "apple_m1"],
       [implementer |-> 97, part |-> 40, cpu |-> "apple_m1"],
       [implementer |-> 97, part |-> 41, cpu |-> "apple_m1"],
       [implementer |-> 97, part |-> 48, cpu |-> "apple_a15"],
       [implementer |-> 97, part |-> 49, cpu |-> "apple_a15"],
       [implementer |-> 97, part |-> 50, cpu |-> "apple_m2"],
       [implementer |-> 97, part |-> 51, cpu |-> "apple_m2"],
       [implementer |-> 97, part |-> 52, cpu |-> "apple_m2"],
       [implementer |-> 97, part |-> 53, cpu |-> "apple_m2"],
       [implementer |-> 97, part |-> 56, cpu |-> "apple_m2"],
       [implementer |-> 97, part |-> 57, cpu |-> "apple_m2"],
       [implementer |-> 97, part |-> 64, cpu |-> "apple_a16"],
       [implementer |-> 97, part |-> 65, cpu |-> "apple_a16"],
       [implementer |-> 97, part |-> 66, cpu |-> "apple_m3"],
       [implementer |-> 97, part |-> 67, cpu |-> "apple_m3"],
       [implementer |-> 97, part |-> 68, cpu |-> "apple_m3"],
       [implementer |-> 97, part |-> 69, cpu |-> "apple_m3"],
       [implementer |-> 97, part |-> 73, cpu |-> "apple_m3"],
       [implementer |-> 97, part |-> 72, cpu |-> "apple_m3"],
       [implementer |-> 97, part |-> 80, cpu |-> "apple_a17"],
       [implementer |-> 97, part |-> 81, cpu |-> "apple_a17"],
       [implementer |-> 97, part |-> 82, cpu |-> "apple_m4"],
       [implementer |-> 97, part |-> 83, cpu |-> "apple_m4"],
       [implementer |-> 97, part |-> 84, cpu |-> "apple_m4"],
       [implementer |-> 97, part |-> 85, cpu |-> "apple_m4"],
       [implementer |-> 97, part |-> 88, cpu |-> "apple_m4"],
       [implementer |-> 97, part |-> 89, cpu |-> "apple_m4"],
       [implementer |-> 104, part |-> 0, cpu |-> "hxt_phecda"],
       [implementer |-> 105, part |-> 1, cpu |-> "intel_3735d"]
    >>

get_cpu_name(cpuid) ==
    IF cpuid.implementer = 67 /\ cpuid.part = 161
    THEN IF cpuid.variant = 0 THEN "cavium_thunderx88p1" ELSE "cavium_thunderx88"
    ELSE IF cpuid.implementer = 83
    THEN IF cpuid.part = 1
         THEN IF cpuid.variant = 4 THEN "samsung_exynos_m2" ELSE "samsung_exynos_m1"
         ELSE IF cpuid.variant # 1 THEN "generic"
         ELSE CASE cpuid.part = 2 -> "samsung_exynos_m3"
                [] cpuid.part = 3 -> "samsung_exynos_m4"
                [] cpuid.part = 4 -> "samsung_exynos_m5"
                [] OTHER -> "generic"
    ELSE LET hits == {i \in 1..Len(cpu_parts) :
                         /\ cpu_parts[i].implementer = cpuid.implementer
                         /\ cpu_parts[i].part = cpuid.part}
         IN  IF hits = {} THEN "generic" ELSE cpu_parts[First(hits)].cpu

\* CPUID::operator<: the order of (implementer, part, variant)
CPUID_less(l, r) ==
    IF l.implementer # r.implementer THEN l.implementer < r.implementer
    ELSE IF l.part # r.part THEN l.part < r.part
    ELSE l.variant < r.variant

\* The elements of a std::set<CPUID> in the order of its iteration.
RECURSIVE SetToSeq(_)
SetToSeq(S) ==
    IF S = {} THEN <<>>
    ELSE LET least == CHOOSE x \in S : \A y \in S \ {x} : CPUID_less(x, y)
         IN  <<least>> \o SetToSeq(S \ {least})

\* get_elf_arch: machine is uname().machine ("" when uname fails)
get_elf_arch(b, machine) ==
    IF IsAArch64(b) THEN [version |-> 8, klass |-> "A"]
    ELSE LET ver0 == CASE machine = "armv6l" -> 6
                       [] machine = "armv7l" -> 7
                       [] machine = "armv7ml" -> 7
                       [] machine \in {"armv8l", "aarch64"} -> 8
                       [] OTHER -> 0
             profile0 == IF machine = "armv7ml" THEN "M" ELSE ""
             ver == IF b.ARM_ARCH > ver0 THEN b.ARM_ARCH ELSE ver0
             profile == IF b.ARM_ARCH > 6 /\ b.ARM_ARCH_PROFILE # ""
                        THEN b.ARM_ARCH_PROFILE ELSE profile0
         IN  [version |-> ver, klass |-> profile]

feature_arch_version(b, feature) ==
    IF IsAArch64(b) THEN [version |-> 8, klass |-> "A"]
    ELSE IF ~test_nbit(feature, "v8") /\ ~test_nbit(feature, "v7")
    THEN [version |-> 6, klass |-> ""]
    ELSE LET ver == IF test_nbit(feature, "v8") THEN 8 ELSE 7
         IN  CASE test_nbit(feature, "mclass") -> [version |-> ver, klass |-> "M"]
               [] test_nbit(feature, "rclass") -> [version |-> ver, klass |-> "R"]
               [] test_nbit(feature, "aclass") -> [version |-> ver, klass |-> "A"]
               [] OTHER -> [version |-> ver, klass |-> ""]

generic_for_arch(b, arch) ==
    IF IsAArch64(b) THEN "generic"
    ELSE LET klass == IF b.ARM_ARCH_PROFILE # "" THEN b.ARM_ARCH_PROFILE ELSE arch.klass
         IN  IF arch.version >= 8
             THEN CASE klass = "M" -> "armv8_m_base"
                    [] klass = "R" -> "armv8_r"
                    [] OTHER -> "armv8_a"
             ELSE IF arch.version = 7
             THEN CASE klass = "M" -> "armv7_m"
                    [] klass = "R" -> "armv7_r"
                    [] OTHER -> "armv7_a"
             ELSE "generic"

check_cpu_arch_ver(b, cpu, arch) ==
    With(find_cpu(b, cpu), LAMBDA spec :
        IF spec = nullptr THEN FALSE
        ELSE With(feature_arch_version(b, cpus(b)[spec].features), LAMBDA feature_arch :
                 /\ (arch.klass = "M") = (feature_arch.klass = "M")
                 /\ ~(arch.version > feature_arch.version)))

\* Index of a CPU in a big.LITTLE order array, -1 when it is not a member.
order_find(order, name) ==
    LET hits == {i \in 1..Len(order) : order[i] = name}
    IN  IF hits = {} THEN -1 ELSE First(hits) - 1

RECURSIVE SeqMax(_, _)
SeqMax(s, m) == IF s = <<>> THEN m
                ELSE SeqMax(Tail(s), IF Head(s) > m THEN Head(s) ELSE m)

RECURSIVE SeqFilterOut(_, _, _)
SeqFilterOut(list, order, maxidx) ==
    IF list = <<>> THEN <<>>
    ELSE LET idx == order_find(order, Head(list).first)
             rest == SeqFilterOut(Tail(list), order, maxidx)
         IN  IF idx # -1 /\ idx < maxidx THEN rest ELSE <<Head(list)>> \o rest

\* Every member of the order array is dropped, the highest too.
shrink_big_little_DropsHighest(list, order) ==
    LET maxidx == SeqMax([i \in 1..Len(list) |-> order_find(order, list[i].first)], -1)
    IN  IF maxidx >= 0 THEN SeqFilterOut(list, order, maxidx + 1) ELSE list

\* shrink_big_little(list, order, ncpu).
shrink_big_little(list, order) ==
    LET maxidx == SeqMax([i \in 1..Len(list) |-> order_find(order, list[i].first)], -1)
    IN  IF maxidx >= 0 THEN SeqFilterOut(list, order, maxidx) ELSE list

v8order ==
    << "arm_cortex_a35", "arm_cortex_a53", "arm_cortex_a55", "arm_cortex_a57",
       "arm_cortex_a72", "arm_cortex_a73", "arm_cortex_a75", "arm_cortex_a76",
       "arm_neoverse_n1", "arm_neoverse_n2", "arm_neoverse_v1", "nvidia_denver2",
       "nvidia_carmel", "samsung_exynos_m1", "samsung_exynos_m2", "samsung_exynos_m3",
       "samsung_exynos_m4", "samsung_exynos_m5" >>

v7order ==
    << "arm_cortex_a5", "arm_cortex_a7", "arm_cortex_a8", "arm_cortex_a9",
       "arm_cortex_a12", "arm_cortex_a15", "arm_cortex_a17" >>

\* The loop of _get_host_cpu over the detected CPUIDs: st holds
\* extra_initialized, extra_features, the set cpus and the candidate list.
RECURSIVE scan_cpuinfo(_, _, _, _)
scan_cpuinfo(b, arch, infos, st) ==
    IF infos = <<>> THEN st
    ELSE With(Head(infos), LAMBDA info :
         With(get_cpu_name(info), LAMBDA name :
         scan_cpuinfo(b, arch, Tail(infos),
             IF name = "generic"
             THEN [st EXCEPT !.extra_features = {}, !.extra_initialized = TRUE]
             ELSE IF ~check_cpu_arch_ver(b, name, arch) THEN st
             ELSE IF name \in st.cpus THEN st
             ELSE With(cpus(b)[find_cpu(b, name)].features, LAMBDA features :
                  [extra_initialized |-> TRUE,
                   extra_features |->
                       IF st.extra_initialized
                       THEN st.extra_features \cap features
                       ELSE features,
                   cpus |-> st.cpus \cup {name},
                   list |-> Append(st.list, [first |-> name, second |-> info])]))))

\* Bits of the vector words 0 and 1, as AT_HWCAP and AT_HWCAP2 give them.
hwcap_bits(os) == os.hwcap \cup {32 + i : i \in os.hwcap2}

\* _get_host_cpu of the Darwin AArch64 build; os.brand is the set of the
\* markers that machdep.cpu.brand_string contains.
get_host_cpu_darwin(os) ==
    LET F == Feature_AArch64
    IN  CASE "M1" \in os.brand -> [first |-> "apple_m1", second |-> F.apple_m1]
          [] "M2" \in os.brand -> [first |-> "apple_m2", second |-> F.apple_m2]
          [] "M3" \in os.brand -> [first |-> "apple_m3", second |-> F.apple_m3]
          [] "M4" \in os.brand -> [first |-> "apple_m4", second |-> F.apple_m4]
          [] OTHER -> [first |-> "apple_m1", second |-> F.apple_m1]

\* _get_host_cpu of every other build.
get_host_cpu_auxv(b, os) ==
    With(hwcap_bits(os), LAMBDA raw :
    With({fe \in feature_masks(b) : FeatureBit(b, fe) \in raw}, LAMBDA named :
    With(IF IsAArch64(b) /\ 31 \in raw THEN named \cup {"pauth"} ELSE named, LAMBDA f0 :
    With(get_elf_arch(b, os.machine), LAMBDA arch :
    With(IF IsAArch64(b) \/ arch.version < 7 THEN f0
         ELSE CASE arch.klass = "M" -> f0 \cup {"mclass"}
                [] arch.klass = "R" -> f0 \cup {"rclass"}
                [] arch.klass = "A" -> f0 \cup {"aclass"}
                [] OTHER -> f0, LAMBDA f1 :
    With(IF IsAArch64(b) THEN f1
         ELSE CASE arch.version = 8 -> f1 \cup {"v8", "v7"}
                [] arch.version = 7 -> f1 \cup {"v7"}
                [] OTHER -> f1, LAMBDA f2 :
    With(scan_cpuinfo(b, arch, SetToSeq(os.cpuinfo),
                      [extra_initialized |-> FALSE, extra_features |-> {},
                       cpus |-> {}, list |-> <<>>]), LAMBDA st :
    With(f2 \cup st.extra_features, LAMBDA features :
    With(shrink_big_little(st.list, v8order), LAMBDA list8 :
    With(IF IsAArch64(b) THEN list8 ELSE shrink_big_little(list8, v7order), LAMBDA list :
    With(IF list = <<>> THEN generic_for_arch(b, arch) ELSE list[1].first, LAMBDA cpu :
        [first |-> cpu, second |-> features \cap feature_masks(b)])))))))))))

_get_host_cpu(b, os) ==
    IF IsAArch64(b) /\ b.os = "darwin" THEN get_host_cpu_darwin(os)
    ELSE get_host_cpu_auxv(b, os)

is_generic_cpu_name(cpu) ==
    cpu \in {"generic", "armv7_a", "armv7_m", "armv7e_m", "armv7_r", "armv8_a",
             "armv8_m_base", "armv8_m_main", "armv8_r", "armv8_1_a", "armv8_2_a",
             "armv8_3_a", "armv8_4_a", "armv8_5_a", "armv8_6_a"}

\* host_cpu_name; llvm_name is what jl_get_cpu_name_llvm() answers.
host_cpu_name(b, host, llvm_name) ==
    IF is_generic_cpu_name(host.first) /\ llvm_name # "generic" THEN llvm_name
    ELSE find_cpu_name(b, host.first)

(***************************************************************************)
(* Command line targets and the target resolver.                           *)
(***************************************************************************)
\* "ares" is mapped to the alias "zeus".
normalize_cpu_name_AliasChain(name) ==
    CASE name = "ares" -> "zeus"
      [] name = "zeus" -> "neoverse-v1"
      [] name = "cyclone" -> "apple-a7"
      [] name = "typhoon" -> "apple-a8"
      [] name = "twister" -> "apple-a9"
      [] name = "hurricane" -> "apple-a10"
      [] OTHER -> "nullptr"

normalize_cpu_name(name) ==
    CASE name = "ares" -> "neoverse-n1"
      [] name = "zeus" -> "neoverse-v1"
      [] name = "cyclone" -> "apple-a7"
      [] name = "typhoon" -> "apple-a8"
      [] name = "twister" -> "apple-a9"
      [] name = "hurricane" -> "apple-a10"
      [] OTHER -> "nullptr"

\* if (auto nname = normalize_cpu_name(t.name)) t.name = nname;
normalize_target_name(name) ==
    IF normalize_cpu_name(name) # "nullptr" THEN normalize_cpu_name(name) ELSE name

\* find_feature_bit(feature_names, nfeature_names, str, len), as the name
\* of the bit; "" stands for UINT32_MAX (no such feature).
find_feature_bit(b, str) ==
    LET hits == {i \in 1..nfeature_names(b) : feature_names(b)[i].name = str}
    IN  IF hits = {} THEN "" ELSE feature_names(b)[First(hits)].fe

\* feature_cb of get_cmdline_targets: the bits that one "+str" or "-str" sets.
feature_cb(b, str) ==
    IF IsAArch64(b) /\ str = "crypto" THEN {"aes", "sha2"}
    ELSE {find_feature_bit(b, str)} \ {""}

\* The TargetData that get_cmdline_targets makes of one target of the string:
\* its name, its "+feat" and "-feat" modifiers and its flags.
cmdline_target(b, name, plus, minus, flags) ==
    [name |-> normalize_target_name(name),
     en |-> [features |-> UNION {feature_cb(b, s) : s \in plus}, flags |-> flags],
     dis |-> [features |-> UNION {feature_cb(b, s) : s \in minus}, flags |-> {}],
     base |-> 0]

\* The base features are and'ed into the parsed ones instead of or'ed.
arg_target_data_AndsBase(b, host, hname, t, require_host) ==
    LET native == t.name = "native"
        spec == find_cpu_by_name(b, t.name)
        known == native \/ spec # nullptr
        cpu_features == IF native THEN host.second
                        ELSE IF spec # nullptr THEN cpus(b)[spec].features ELSE {}
        en1 == IF known THEN t.en.features \cap cpu_features ELSE t.en.features
        en3 == enable_depends(b, en1) \ t.dis.features
        en4 == IF require_host THEN en3 \cap host.second ELSE en3
        en5 == disable_depends(b, en4)
    IN  [name |-> IF native THEN hname ELSE t.name,
         en |-> [features |-> en5,
                 flags |-> IF known THEN t.en.flags
                           ELSE t.en.flags \cup {"JL_TARGET_UNKNOWN_NAME"}],
         dis |-> [features |-> IF known THEN feature_masks(b) \ en5 ELSE t.dis.features,
                  flags |-> t.dis.flags],
         base |-> t.base]

\* The disabled features are not cleared from the enabled ones.
arg_target_data_KeepsDisabled(b, host, hname, t, require_host) ==
    LET native == t.name = "native"
        spec == find_cpu_by_name(b, t.name)
        known == native \/ spec # nullptr
        cpu_features == IF native THEN host.second
                        ELSE IF spec # nullptr THEN cpus(b)[spec].features ELSE {}
        en1 == IF known THEN t.en.features \cup cpu_features ELSE t.en.features
        en3 == enable_depends(b, en1)
        en4 == IF require_host THEN en3 \cap host.second ELSE en3
        en5 == disable_depends(b, en4)
    IN  [name |-> IF native THEN hname ELSE t.name,
         en |-> [features |-> en5,
                 flags |-> IF known THEN t.en.flags
                           ELSE t.en.flags \cup {"JL_TARGET_UNKNOWN_NAME"}],
         dis |-> [features |-> IF known THEN feature_masks(b) \ en5 ELSE t.dis.features,
                  flags |-> t.dis.flags],
         base |-> t.base]

\* The disabled features are filled in from real_feature_masks.
arg_target_data_RealMask(b, host, hname, t, require_host) ==
    LET native == t.name = "native"
        spec == find_cpu_by_name(b, t.name)
        known == native \/ spec # nullptr
        cpu_features == IF native THEN host.second
                        ELSE IF spec # nullptr THEN cpus(b)[spec].features ELSE {}
        en1 == IF known THEN t.en.features \cup cpu_features ELSE t.en.features
        en3 == enable_depends(b, en1) \ t.dis.features
        en4 == IF require_host THEN en3 \cap host.second ELSE en3
        en5 == disable_depends(b, en4)
    IN  [name |-> IF native THEN hname ELSE t.name,
         en |-> [features |-> en5,
                 flags |-> IF known THEN t.en.flags
                           ELSE t.en.flags \cup {"JL_TARGET_UNKNOWN_NAME"}],
         dis |-> [features |-> IF known THEN real_feature_masks(b) \ en5
                               ELSE t.dis.features,
                  flags |-> t.dis.flags],
         base |-> t.base]

\* An unknown name falls back to the features of the generic CPU (the first
\* entry of the catalog) instead of being flagged.
arg_target_data_UnknownIsGeneric(b, host, hname, t, require_host) ==
    LET native == t.name = "native"
        cpu_features == IF native THEN host.second
                        ELSE cpus(b)[IF find_cpu_by_name(b, t.name) # nullptr
                                     THEN find_cpu_by_name(b, t.name) ELSE 1].features
        en3 == enable_depends(b, t.en.features \cup cpu_features) \ t.dis.features
        en4 == IF require_host THEN en3 \cap host.second ELSE en3
        en5 == disable_depends(b, en4)
    IN  [name |-> IF native THEN hname ELSE t.name,
         en |-> [features |-> en5, flags |-> t.en.flags],
         dis |-> [features |-> feature_masks(b) \ en5, flags |-> t.dis.flags],
         base |-> t.base]

\* arg_target_data(arg, require_host); host is get_host_cpu(), hname is
\* host_cpu_name().
arg_target_data(b, host, hname, t, require_host) ==
    With(t.name = "native", LAMBDA native :
    With(find_cpu_by_name(b, t.name), LAMBDA spec :
    \* known: cpu_features != nullptr
    With(native \/ spec # nullptr, LAMBDA known :
    With(IF native THEN host.second
         ELSE IF spec # nullptr THEN cpus(b)[spec].features ELSE {}, LAMBDA cpu_features :
    With(IF known THEN t.en.features \cup cpu_features ELSE t.en.features, LAMBDA en1 :
    With(enable_depends(b, en1), LAMBDA en2 :
    With(en2 \ t.dis.features, LAMBDA en3 :
    With(IF require_host THEN en3 \cap host.second ELSE en3, LAMBDA en4 :
    With(disable_depends(b, en4), LAMBDA en5 :
        [name |-> IF native THEN hname ELSE t.name,
         en |-> [features |-> en5,
                 flags |-> IF known THEN t.en.flags
                           ELSE t.en.flags \cup {"JL_TARGET_UNKNOWN_NAME"}],
         dis |-> [features |-> IF known THEN feature_masks(b) \ en5 ELSE t.dis.features,
                  flags |-> t.dis.flags],
         base |-> t.base])))))))))

(***************************************************************************)
(* State.                                                                  *)
(*   build  the build configuration of the running binary                  *)
(*   host_cpu   the static of get_host_cpu(): (CPU id, feature vector)     *)
(*   host_name  the static of host_cpu_name()                              *)
(*   op     the operation that ran last                                    *)
(*   arg    its input                                                      *)
(*   res    its result                                                     *)
(***************************************************************************)
VARIABLES build, host_cpu, host_name, op, arg, res

vars == <<build, host_cpu, host_name, op, arg, res>>

\* The host has not been looked at.
NoHost == [first |-> "generic", second |-> {}]

\* The sets of at most n elements of S.
RECURSIVE UpTo(_, _)
UpTo(S, n) ==
    IF n = 0 THEN {{}}
    ELSE LET T == UpTo(S, n - 1)
         IN  T \cup {t \cup {x} : t \in T, x \in S}

CatalogFeatures(b) == {cpus(b)[i].features : i \in 1..ncpu_names(b)}

(***************************************************************************)
(* SpecDeps: the dependency closures applied, in any order and any number  *)
(* of times, to a feature vector.  The vector starts as a set of at most   *)
(* MaxPick named bits or as the base feature set of a catalog CPU.         *)
(***************************************************************************)
InitDeps ==
    /\ build \in Builds
    /\ host_cpu = NoHost
    /\ host_name = ""
    /\ op = "init"
    /\ arg \in UpTo(feature_masks(build), MaxPick) \cup CatalogFeatures(build)
    /\ res = arg

EnableDepends ==
    /\ op' = "enable_depends"
    /\ arg' = res
    /\ res' = enable_depends(build, res)
    /\ UNCHANGED <<build, host_cpu, host_name>>

DisableDepends ==
    /\ op' = "disable_depends"
    /\ arg' = res
    /\ res' = disable_depends(build, res)
    /\ UNCHANGED <<build, host_cpu, host_name>>

NextDeps == EnableDepends \/ DisableDepends

SpecDeps == InitDeps /\ [][NextDeps]_vars

\* Every edge (dependent, prerequisite) of Feature::deps is respected by F.
EdgeClosed(b, F) ==
    \A i \in 1..Len(deps(b)) : deps(b)[i].enable \in F => deps(b)[i].dep \in F

\* C1: enable_depends returns a superset of its input, and applying it to
\* its own result changes nothing.
C1_EnableSupersetIdempotent ==
    op = "enable_depends" =>
        /\ arg \subseteq res
        /\ enable_depends(build, res) = res

\* The ladder, an architecture unlock and the edge fixpoint all acted.
C1_Witness ==
    /\ op = "enable_depends"
    /\ IsAArch64(build)
    /\ "v8_6a" \in arg /\ "sve2_aes" \in arg
    /\ {"v8_1a", "crc", "bf16", "sve", "fullfp16", "aes"} \subseteq res \ arg

\* C2: disable_depends returns a subset of its input, and applying it to
\* its own result changes nothing.
C2_DisableSubsetIdempotent ==
    op = "disable_depends" =>
        /\ res \subseteq arg
        /\ disable_depends(build, res) = res

\* A chain of two edges was cleared: sve2 -> sve -> fullfp16.
C2_Witness ==
    /\ op = "disable_depends"
    /\ IsAArch64(build)
    /\ arg = {"sve2", "sve"}
    /\ res = {}

\* C3: after enable_depends every dependent that is set has its
\* prerequisite set; after disable_depends every dependent whose
\* prerequisite is clear is clear.
C3_ClosedAfterDepends ==
    /\ op = "enable_depends" =>
          \A i \in 1..Len(deps(build)) :
              test_nbit(res, deps(build)[i].enable) => test_nbit(res, deps(build)[i].dep)
    /\ op = "disable_depends" =>
          \A i \in 1..Len(deps(build)) :
              ~test_nbit(res, deps(build)[i].dep) => ~test_nbit(res, deps(build)[i].enable)

\* AArch32: crypto without neon is cleared, crypto alone pulls in neon and vfp3.
C3_Witness ==
    /\ ~IsAArch64(build)
    /\ \/ op = "disable_depends" /\ "crypto" \in arg /\ "neon" \notin arg /\ "crypto" \notin res
       \/ op = "enable_depends" /\ arg = {"crypto"} /\ {"neon", "vfp3"} \subseteq res

(***************************************************************************)
(* SpecResolve: arg_target_data applied to one parsed target.  The host is *)
(* what host discovery makes of one of HostSamples; the parsed target      *)
(* names any CPU of the catalog, an alias, "native" or an unknown CPU      *)
(* without modifiers, or one of ModNames with at most MaxMods "+feat" and  *)
(* at most MaxMods "-feat" modifiers.                                      *)
(***************************************************************************)
NoCores == {}

CoreA53 == [implementer |-> 65, variant |-> 0, part |-> 3331]
CoreA72 == [implementer |-> 65, variant |-> 0, part |-> 3336]
CoreN2 == [implementer |-> 65, variant |-> 0, part |-> 3401]
CoreA7 == [implementer |-> 65, variant |-> 0, part |-> 3079]
CoreUnknown == [implementer |-> 153, variant |-> 0, part |-> 1]

HostSamples(b) ==
    IF IsAArch64(b) /\ b.os = "darwin"
    THEN [brand : {{"M1"}, {"M2"}, {}}, hwcap : {{}}, hwcap2 : {{}},
          cpuinfo : {NoCores}, machine : {"arm64"}]
    ELSE IF IsAArch64(b)
    THEN {[brand |-> {}, hwcap |-> {}, hwcap2 |-> {}, cpuinfo |-> NoCores,
           machine |-> "aarch64"],
          [brand |-> {}, hwcap |-> {3, 6, 7}, hwcap2 |-> {},
           cpuinfo |-> {CoreA53, CoreA72}, machine |-> "aarch64"],
          [brand |-> {}, hwcap |-> {3, 6, 7, 8, 9, 12, 22, 31}, hwcap2 |-> {1},
           cpuinfo |-> {CoreN2}, machine |-> "aarch64"],
          [brand |-> {}, hwcap |-> {3, 7, 9}, hwcap2 |-> {},
           cpuinfo |-> {CoreA53, CoreUnknown}, machine |-> "aarch64"]}
    ELSE {[brand |-> {}, hwcap |-> {}, hwcap2 |-> {}, cpuinfo |-> NoCores,
           machine |-> "armv6l"],
          [brand |-> {}, hwcap |-> {12, 13}, hwcap2 |-> {},
           cpuinfo |-> {CoreA7}, machine |-> "armv7l"],
          [brand |-> {}, hwcap |-> {12, 13, 16, 17, 18, 19}, hwcap2 |-> {0, 4},
           cpuinfo |-> {CoreA53}, machine |-> "armv8l"]}

LlvmNames == {"generic", "cortex-a72"}

CatalogNames(b) == {cpus(b)[i].name : i \in 1..ncpu_names(b)}

Aliases == {"ares", "zeus", "cyclone", "typhoon", "twister", "hurricane"}

AllNames(b) == CatalogNames(b) \cup Aliases \cup {"native", "unknown-cpu"}

ModNames == {"native", "unknown-cpu", "generic", "cortex-a57", "ares"}

ModFeatures(b) ==
    IF IsAArch64(b) THEN {"crypto", "sve2", "fullfp16", "v8_2a"}
    ELSE {"crypto", "neon", "vfp3", "v8_1a"}

ParsedTargets(b) ==
    {cmdline_target(b, name, {}, {}, {}) : name \in AllNames(b)} \cup
    {cmdline_target(b, name, plus, minus, flags) :
        name \in ModNames,
        plus \in UpTo(ModFeatures(b), MaxMods),
        minus \in UpTo(ModFeatures(b), MaxMods),
        flags \in {{}, {"JL_TARGET_CLONE_ALL"}}}

InitHost ==
    /\ build \in Builds
    /\ \E os \in HostSamples(build), llvm_name \in LlvmNames :
          /\ host_cpu = _get_host_cpu(build, os)
          /\ host_name = host_cpu_name(build, host_cpu, llvm_name)

InitResolve ==
    /\ InitHost
    /\ op = "init"
    /\ arg \in [t : ParsedTargets(build), require_host : BOOLEAN]
    /\ res = arg.t

ArgTargetData ==
    /\ op = "init"
    /\ op' = "arg_target_data"
    /\ res' = arg_target_data(build, host_cpu, host_name, arg.t, arg.require_host)
    /\ UNCHANGED <<build, host_cpu, host_name, arg>>

NextResolve == ArgTargetData

SpecResolve == InitResolve /\ [][NextResolve]_vars

Resolved == op = "arg_target_data"

\* The name of the parsed target is "native" or a CPU of the catalog.
NameKnown == arg.t.name = "native" \/ find_cpu_by_name(build, arg.t.name) # nullptr

\* C4: the resolved target never both enables and disables a feature.
C4_EnableDisableDisjoint ==
    Resolved => res.en.features \cap res.dis.features = {}

\* A feature asked for with "+" and with "-" on an unknown CPU, and a known
\* CPU whose disabled set was filled in.
C4_Witness ==
    /\ Resolved
    /\ \/ ~NameKnown /\ arg.t.en.features \cap arg.t.dis.features # {}
       \/ NameKnown /\ arg.t.dis.features # {} /\ res.en.features # {}

\* C5 as stated: a target that names a catalog CPU and has no modifiers
\* resolves to a superset of the base features of that CPU.
C5_BaseFeaturesKept ==
    (/\ Resolved
     /\ find_cpu_by_name(build, arg.t.name) # nullptr
     /\ arg.t.en.features = {} /\ arg.t.dis.features = {})
    => cpus(build)[find_cpu_by_name(build, arg.t.name)].features \subseteq res.en.features

\* C5 amended: the same when require_host is false, or when the host has
\* the base features of the CPU and all that enable_depends adds to them.
C5_BaseFeaturesKeptOffHost ==
    (/\ Resolved
     /\ find_cpu_by_name(build, arg.t.name) # nullptr
     /\ arg.t.en.features = {} /\ arg.t.dis.features = {}
     /\ \/ ~arg.require_host
        \/ enable_depends(build, cpus(build)[find_cpu_by_name(build, arg.t.name)].features)
               \subseteq host_cpu.second)
    => cpus(build)[find_cpu_by_name(build, arg.t.name)].features \subseteq res.en.features

\* A CPU with base features resolved without the host, and one resolved
\* against a host that has them all.
C5_Witness ==
    /\ Resolved
    /\ find_cpu_by_name(build, arg.t.name) # nullptr
    /\ arg.t.en.features = {} /\ arg.t.dis.features = {}
    /\ cpus(build)[find_cpu_by_name(build, arg.t.name)].features # {}
    /\ \/ ~arg.require_host /\ ~(res.en.features \subseteq host_cpu.second)
       \/ arg.require_host /\ res.en.features # {}

\* C6 as stated: for a known CPU the disabled features are the real feature
\* mask (third word zeroed) without the enabled ones.
C6_DisableIsRealMask ==
    (Resolved /\ find_cpu_by_name(build, arg.t.name) # nullptr)
    => res.dis.features = real_feature_masks(build) \ res.en.features

\* C6 amended: for a known CPU (and for "native") the disabled features are
\* feature_masks, every named bit of the three words, without the enabled
\* ones.
C6_DisableIsFeatureMask ==
    (Resolved /\ NameKnown)
    => res.dis.features = feature_masks(build) \ res.en.features

\* A known CPU whose disabled set holds a bit of the third word.
C6_Witness ==
    /\ Resolved
    /\ find_cpu_by_name(build, arg.t.name) # nullptr
    /\ \E fe \in res.dis.features : FeatureBit(build, fe) \div 32 = 2
    /\ res.en.features # {}

\* C7: an unknown name is flagged, gets no base features and keeps its
\* disabled features as parsed; a known name or "native" is never flagged.
C7_UnknownNameFlagged ==
    Resolved =>
        IF NameKnown
        THEN "JL_TARGET_UNKNOWN_NAME" \notin res.en.flags
        ELSE /\ "JL_TARGET_UNKNOWN_NAME" \in res.en.flags
             /\ res.en.features \subseteq enable_depends(build, arg.t.en.features)
             /\ res.dis.features = arg.t.dis.features
             /\ res.name = arg.t.name

\* An unknown name with a "+feat" and a "-feat" modifier was resolved.
C7_Witness ==
    /\ Resolved
    /\ ~NameKnown
    /\ arg.t.en.features # {} /\ arg.t.dis.features # {}
    /\ res.en.features # {}

(***************************************************************************)
(* SpecWalk: the fallback walk at the head of get_llvm_target_noext, one   *)
(* step per iteration of its while loop, for a backend version            *)
(* JL_LLVM_VERSION of the build and the name of the target handed to the   *)
(* call (a name of the catalog or an unknown one).  res.path holds the     *)
(* catalog entries that spec has pointed to.  Taking spec->name of a null  *)
(* spec is undefined behaviour: the walk stops in "crash".                 *)
(***************************************************************************)
LlvmVersions ==
    {0, 90000, 100000, 110000, 120000, 130000, 150000, 160000, 180000, 190000, 200000}

InitWalk ==
    /\ build \in Builds
    /\ host_cpu = NoHost
    /\ host_name = ""
    /\ op = "init"
    /\ arg \in [name : {""}, version : LlvmVersions]
    /\ res = [spec |-> nullptr, name |-> "", path |-> <<>>]

\* std::string name = data.name; auto *spec = find_cpu(name);
WalkFindCpu ==
    /\ op = "init"
    /\ op' = "walk"
    /\ \E name \in CatalogNames(build) \cup {"unknown-cpu"} :
          LET spec == find_cpu_by_name(build, name)
          IN  /\ arg' = [arg EXCEPT !.name = name]
              /\ res' = [spec |-> spec, name |-> name,
                         path |-> IF spec = nullptr THEN <<>> ELSE <<spec>>]
    /\ UNCHANGED <<build, host_cpu, host_name>>

\* One iteration that does not break: spec = find_cpu(spec->fallback);
\* name = spec->name.  The guard on the length of the path keeps a walk that
\* cycles finite.
WalkFallback ==
    /\ op = "walk"
    /\ res.spec # nullptr
    /\ cpus(build)[res.spec].llvmver > arg.version
    /\ Len(res.path) <= ncpu_names(build) + 1
    /\ LET spec == find_cpu(build, cpus(build)[res.spec].fallback)
       IN  IF spec = nullptr
           THEN /\ op' = "crash"
                /\ res' = [res EXCEPT !.spec = nullptr]
           ELSE /\ op' = "walk"
                /\ res' = [spec |-> spec, name |-> cpus(build)[spec].name,
                           path |-> Append(res.path, spec)]
    /\ UNCHANGED <<build, host_cpu, host_name, arg>>

\* The loop ends: spec is null, or spec->llvmver <= JL_LLVM_VERSION.
WalkBreak ==
    /\ op = "walk"
    /\ IF res.spec = nullptr THEN TRUE
       ELSE cpus(build)[res.spec].llvmver <= arg.version
    /\ op' = "done"
    /\ UNCHANGED <<build, host_cpu, host_name, arg, res>>

NextWalk == WalkFindCpu \/ WalkFallback \/ WalkBreak

SpecWalk == InitWalk /\ [][NextWalk]_vars /\ WF_vars(NextWalk)

\* Number of times the walk has replaced spec by its fallback.
WalkSteps == IF res.path = <<>> THEN 0 ELSE Len(res.path) - 1

\* In every build, the fallback of every entry is the id of an entry of the
\* same table.
FallbacksResolve ==
    \A b \in Builds :
        LET tab == cpus(b)
        IN  \A i \in 1..Len(tab) : global_find_cpu(tab[i].fallback, tab) # nullptr

WalkSafe ==
    /\ op # "crash"
    /\ WalkSteps <= ncpu_names(build)
    /\ \A i, j \in 1..Len(res.path) : res.path[i] = res.path[j] => i = j
    /\ FallbacksResolve
    /\ (op = "done" /\ res.spec # nullptr) =>
           LET spec == cpus(build)[res.spec]
           IN  spec.llvmver <= arg.version /\ res.name = spec.name

\* C8: for every CPU of the catalog and every backend version the fallback
\* walk ends, after at most |catalog| steps, at an entry whose minimum
\* version is at most the backend version; it never takes the fallback of
\* an id that is not in the catalog and never visits an entry twice.
C8_FallbackWalkTerminates == <>(op = "done" /\ WalkSafe)

\* A walk that took at least two fallbacks has ended.
C8_Witness == op = "done" /\ WalkSteps >= 2 /\ res.name # arg.name

(***************************************************************************)
(* SpecCatalog: name normalization, then the lookup of the name and of the *)
(* name of the id found.  res.n is the name looked up.                     *)
(***************************************************************************)
InitCatalog ==
    /\ build \in Builds
    /\ host_cpu = NoHost
    /\ host_name = ""
    /\ op = "init"
    /\ arg \in AllNames(build)
    /\ res = [n |-> arg, spec |-> nullptr, name |-> arg]

\* if (auto nname = normalize_cpu_name(t.name)) t.name = nname;
NormalizeName ==
    /\ op \in {"init", "normalize"}
    /\ op' = "normalize"
    /\ res' = [n |-> normalize_target_name(res.name), spec |-> nullptr,
               name |-> normalize_target_name(res.name)]
    /\ UNCHANGED <<build, host_cpu, host_name, arg>>

\* find_cpu(name)
LookupName ==
    /\ op \in {"init", "normalize"}
    /\ op' = "find_cpu"
    /\ res' = [res EXCEPT !.spec = find_cpu_by_name(build, res.n)]
    /\ UNCHANGED <<build, host_cpu, host_name, arg>>

\* find_cpu_name(spec->cpu) of the entry found
LookupIdName ==
    /\ op = "find_cpu"
    /\ res.spec # nullptr
    /\ op' = "find_cpu_name"
    /\ res' = [res EXCEPT !.name = find_cpu_name(build, cpus(build)[res.spec].cpu)]
    /\ UNCHANGED <<build, host_cpu, host_name, arg>>

NextCatalog == NormalizeName \/ LookupName \/ LookupIdName

SpecCatalog == InitCatalog /\ [][NextCatalog]_vars

\* In every build, no two entries of the table share a name or an id.
CatalogUnique ==
    \A b \in Builds :
        LET tab == cpus(b)
        IN  \A i, j \in 1..Len(tab) :
                (tab[i].name = tab[j].name \/ tab[i].cpu = tab[j].cpu) => i = j

\* C9: the name of the id of the entry found under a catalog name is that
\* name, and no two entries of a catalog share a name or an id.
C9_NameIdRoundTrip ==
    /\ op = "find_cpu_name" => res.name = res.n
    /\ op = "find_cpu" => (res.spec # nullptr <=> res.n \in CatalogNames(build))
    /\ CatalogUnique

\* The round trip was made for an entry that is not the first of the table,
\* reached through an alias.
C9_Witness ==
    /\ op = "find_cpu_name"
    /\ res.spec > 1
    /\ arg \in Aliases
    /\ res.name = res.n

\* C10: a normalized name is left alone by a second normalization, and no
\* alias is mapped to an alias.
C10_NormalizeIdempotent ==
    /\ op = "normalize" => normalize_target_name(res.name) = res.name
    /\ \A a \in Aliases : /\ normalize_cpu_name(a) # "nullptr"
                          /\ normalize_cpu_name(normalize_cpu_name(a)) = "nullptr"

\* An alias was replaced by its canonical name.
C10_Witness ==
    /\ op = "normalize"
    /\ arg \in Aliases
    /\ res.name # arg

(***************************************************************************)
(* The backend string emitter.  A feature string "+name" or "-name" is the *)
(* record of its sign and of the name that follows it.                     *)
(***************************************************************************)
\* std::string("+") + fename_str, std::string("-") + fename_str
FeatureStr(sign, name) == [sign |-> sign, name |-> name]

\* The while loop at the head of get_llvm_target_noext: spec and name when
\* the loop is left.  fuel bounds the iterations; taking the name of a null
\* spec is undefined and gives the name "<null>".
RECURSIVE fallback_walk(_, _, _, _, _)
fallback_walk(b, spec, name, version, fuel) ==
    IF spec = nullptr \/ fuel = 0 THEN [spec |-> spec, name |-> name]
    ELSE IF cpus(b)[spec].llvmver <= version THEN [spec |-> spec, name |-> name]
    ELSE With(find_cpu(b, cpus(b)[spec].fallback), LAMBDA next :
             IF next = nullptr THEN [spec |-> nullptr, name |-> "<null>"]
             ELSE fallback_walk(b, next, cpus(b)[next].name, version, fuel - 1))

\* The "-name" strings are inserted at the front like the "+name" ones.
feature_strs_step_MinusInFront(b, features, dis, version, i, acc) ==
    IF acc.done THEN acc
    ELSE IF feature_names(b)[i].llvmver > version THEN acc
    ELSE IF feature_names(b)[i].bit >= 32 * 2 THEN [strs |-> acc.strs, done |-> TRUE]
    ELSE IF test_nbit(features, feature_names(b)[i].fe)
    THEN [strs |-> <<FeatureStr("+", feature_names(b)[i].name)>> \o acc.strs,
          done |-> FALSE]
    ELSE IF test_nbit(dis, feature_names(b)[i].fe)
    THEN [strs |-> <<FeatureStr("-", feature_names(b)[i].name)>> \o acc.strs,
          done |-> FALSE]
    ELSE acc

\* The body of `for (auto &fename: feature_names)` for fename =
\* feature_names[i]; acc is feature_strs and whether the loop was left by
\* break.  A name the backend version does not know is skipped, the first bit
\* of the third word ends the loop, "+name" goes to the front of feature_strs
\* and "-name" to its back.
feature_strs_step(b, features, dis, version, i, acc) ==
    IF acc.done THEN acc
    ELSE IF feature_names(b)[i].llvmver > version THEN acc
    ELSE IF feature_names(b)[i].bit >= 32 * 2 THEN [strs |-> acc.strs, done |-> TRUE]
    ELSE IF test_nbit(features, feature_names(b)[i].fe)
    THEN [strs |-> <<FeatureStr("+", feature_names(b)[i].name)>> \o acc.strs,
          done |-> FALSE]
    ELSE IF test_nbit(dis, feature_names(b)[i].fe)
    THEN [strs |-> Append(acc.strs, FeatureStr("-", feature_names(b)[i].name)),
          done |-> FALSE]
    ELSE acc

\* The iterations lo .. hi of the loop, in order: the first half, then the
\* second half from where the first one ended.
RECURSIVE feature_strs_range(_, _, _, _, _, _, _)
feature_strs_range(b, features, dis, version, lo, hi, acc) ==
    IF lo > hi THEN acc
    ELSE IF lo = hi THEN feature_strs_step(b, features, dis, version, lo, acc)
    ELSE With(feature_strs_range(b, features, dis, version, lo, (lo + hi) \div 2, acc),
              LAMBDA left :
             IF left.done THEN left
             ELSE feature_strs_range(b, features, dis, version, (lo + hi) \div 2 + 1, hi,
                                     left))

\* feature_strs when the loop over feature_names is over.
feature_strs_loop(b, features, dis, version) ==
    feature_strs_range(b, features, dis, version, 1, nfeature_names(b),
                       [strs |-> <<>>, done |-> FALSE]).strs

\* The sequence f[1], ..., f[n].
RECURSIVE SeqOf(_, _)
SeqOf(f, n) == IF n = 0 THEN <<>> ELSE Append(SeqOf(f, n - 1), f[n])

\* if (test_nbit(features, fe)) feature_strs.push_back(each of names)
PushIf(features, fe, names) ==
    IF test_nbit(features, fe)
    THEN SeqOf([i \in 1..Len(names) |-> FeatureStr("+", names[i])], Len(names))
    ELSE <<>>

\* The strings pushed for the version bits v8_6a .. v8_1a.
version_strs(features) ==
    PushIf(features, "v8_6a", <<"v8.6a">>) \o PushIf(features, "v8_5a", <<"v8.5a">>) \o
    PushIf(features, "v8_4a", <<"v8.4a">>) \o PushIf(features, "v8_3a", <<"v8.3a">>) \o
    PushIf(features, "v8_2a", <<"v8.2a">>) \o PushIf(features, "v8_1a", <<"v8.1a">>)

\* The strings pushed for the profile and architecture bits of AArch32.
arch_strs_AArch32(features) ==
    PushIf(features, "v8_m_main", <<"v8m.main", "armv8-m.main">>) \o
    PushIf(features, "aclass", <<"aclass">>) \o
    PushIf(features, "rclass", <<"rclass">>) \o
    PushIf(features, "mclass", <<"mclass">>) \o
    (IF test_nbit(features, "v8")
     THEN <<FeatureStr("+", "v8")>> \o
          PushIf(features, "aclass", <<"armv8-a">>) \o
          PushIf(features, "rclass", <<"armv8-r">>) \o
          PushIf(features, "mclass", <<"v8m", "armv8-m.base">>)
     ELSE <<>>) \o
    (IF test_nbit(features, "v7")
     THEN <<FeatureStr("+", "v7")>> \o
          PushIf(features, "aclass", <<"armv7-a">>) \o
          PushIf(features, "rclass", <<"armv7-r">>) \o
          PushIf(features, "mclass", <<"armv7-m">>)
     ELSE <<>>) \o
    <<FeatureStr("+", "v6"), FeatureStr("+", "vfp2")>>

\* Everything pushed after the loop over feature_names.
alias_strs(b, features) ==
    version_strs(features) \o
    (IF IsAArch64(b) THEN <<FeatureStr("+", "neon"), FeatureStr("+", "fp-armv8")>>
     ELSE arch_strs_AArch32(features))

\* The alias strings are put in front of the feature strings.
get_llvm_target_noext_AliasFirst(b, data, version) ==
    With(fallback_walk(b, find_cpu_by_name(b, data.name), data.name, version,
                       ncpu_names(b)), LAMBDA w :
    With(IF w.spec = nullptr THEN FALSE
         ELSE is_generic_cpu_name(cpus(b)[w.spec].cpu), LAMBDA generic :
    With(IF generic THEN data.en.features \cup cpus(b)[w.spec].features
         ELSE data.en.features, LAMBDA features :
    With(IF generic THEN "generic" ELSE w.name, LAMBDA name :
        [first |-> IF ~IsAArch64(b) /\ name = "apple-a7" THEN "cyclone" ELSE name,
         second |-> (IF IsAArch64(b)
                     THEN <<FeatureStr("+", "neon"), FeatureStr("+", "fp-armv8")>>
                     ELSE <<>>) \o
                    version_strs(features) \o
                    (IF IsAArch64(b) THEN <<>> ELSE arch_strs_AArch32(features)) \o
                    feature_strs_loop(b, features, data.dis.features, version)]))))

\* get_llvm_target_noext(data) of a build whose JL_LLVM_VERSION is version:
\* the pair (CPU name, feature strings).
get_llvm_target_noext(b, data, version) ==
    With(fallback_walk(b, find_cpu_by_name(b, data.name), data.name, version,
                       ncpu_names(b)), LAMBDA w :
    With(IF w.spec = nullptr THEN FALSE
         ELSE is_generic_cpu_name(cpus(b)[w.spec].cpu), LAMBDA generic :
    With(IF generic THEN data.en.features \cup cpus(b)[w.spec].features
         ELSE data.en.features, LAMBDA features :
    With(IF generic THEN "generic" ELSE w.name, LAMBDA name :
        [first |-> IF ~IsAArch64(b) /\ name = "apple-a7" THEN "cyclone" ELSE name,
         second |-> feature_strs_loop(b, features, data.dis.features, version) \o
                    alias_strs(b, features)]))))

(***************************************************************************)
(* The JIT target list and the entry points that use it.  A process state  *)
(* st is a record:                                                         *)
(*   cmdline      the static target list of get_cmdline_targets            *)
(*   version      JL_LLVM_VERSION of the build                             *)
(*   jit_targets  the static jit_targets                                   *)
(*   cb           the image callbacks that the last call ran               *)
(*   err          the message of the error the last call raised, or ""     *)
(*   ret          what the last call returned: (tag, val)                  *)
(*   ub           the last call took front() of an empty jit_targets       *)
(*   sysimg_called  jl_init_processor_sysimg has been called               *)
(*   halted       the process has ended                                    *)
(* An image is the sequence of its target variants; match is what          *)
(* match_sysimg_targets answers for it: (best_idx, vreg_size).             *)
(***************************************************************************)
\* The state at the entry of a call.
Ret(tag, val) == [tag |-> tag, val |-> val]

enter(s0) == [s0 EXCEPT !.cb = <<>>, !.err = "", !.ret = Ret("", 0), !.ub = FALSE]

\* jl_error(msg): the call ends by raising msg.
jl_error(st_err, msg) == [st_err EXCEPT !.err = msg, !.ret = Ret("jl_error", 0)]

max_vector_size(b, features) ==
    IF ~IsAArch64(b) THEN (IF test_nbit(features, "neon") THEN 16 ELSE 8)
    ELSE IF test_nbit(features, "sve2") THEN 256
    ELSE IF test_nbit(features, "sve") THEN 128
    ELSE 16

\* The first target is resolved without the host.
sysimg_init_cb_NoRequireHost(b, host, hname, st_sys, image, match) ==
    With(arg_target_data(b, host, hname, st_sys.cmdline[1], FALSE), LAMBDA target :
    With([st_sys EXCEPT !.cb = Append(st_sys.cb, "sysimg_init_cb"),
                   !.ret = Ret("idx", match.best_idx)], LAMBDA st_ran :
        IF match.best_idx = UINT32_MAX THEN st_ran
        ELSE IF /\ match.vreg_size # max_vector_size(b, target.en.features)
                /\ "JL_TARGET_VEC_CALL" \in image[match.best_idx + 1].en.flags
                /\ ~IsAArch64(b)
        THEN [st_ran EXCEPT !.jit_targets =
                  Append(st_sys.jit_targets,
                         [target EXCEPT !.en.features = target.en.features \ {"neon"}])]
        ELSE [st_ran EXCEPT !.jit_targets = Append(st_sys.jit_targets, target)]))

\* sysimg_init_cb with the answer of match_sysimg_targets given.
sysimg_init_cb(b, host, hname, st_sys, image, match) ==
    With(arg_target_data(b, host, hname, st_sys.cmdline[1], TRUE), LAMBDA target :
    With([st_sys EXCEPT !.cb = Append(st_sys.cb, "sysimg_init_cb"),
                   !.ret = Ret("idx", match.best_idx)], LAMBDA st_ran :
        IF match.best_idx = UINT32_MAX THEN st_ran
        ELSE IF /\ match.vreg_size # max_vector_size(b, target.en.features)
                /\ "JL_TARGET_VEC_CALL" \in image[match.best_idx + 1].en.flags
                /\ ~IsAArch64(b)
        THEN [st_ran EXCEPT !.jit_targets =
                  Append(st_sys.jit_targets,
                         [target EXCEPT !.en.features = target.en.features \ {"neon"}])]
        ELSE [st_ran EXCEPT !.jit_targets = Append(st_sys.jit_targets, target)]))

\* pkgimg_init_cb with the answer of match_sysimg_targets given.
pkgimg_init_cb(b, st_pkg, image, match) ==
    [st_pkg EXCEPT !.cb = Append(st_pkg.cb, "pkgimg_init_cb"),
               !.ub = (st_pkg.jit_targets = <<>>),
               !.ret = Ret("idx", match.best_idx)]

\* parse_sysimg: the image reader has run the callback once; a sentinel
\* answer makes the match fail with the rejection reason.
parse_sysimg(st_cb) ==
    IF st_cb.ret.val = UINT32_MAX THEN [st_cb EXCEPT !.err = "rejection_reason"] ELSE st_cb

\* The test is on the number of calls made, not on jit_targets.
jl_init_processor_sysimg_CountsCalls(b, host, hname, st, image, match) ==
    IF st.sysimg_called THEN jl_error(st, "JIT targets already initialized")
    ELSE parse_sysimg(sysimg_init_cb(b, host, hname, st, image, match))

jl_init_processor_sysimg(b, host, hname, st, image, match) ==
    IF st.jit_targets # <<>> THEN jl_error(st, "JIT targets already initialized")
    ELSE parse_sysimg(sysimg_init_cb(b, host, hname, st, image, match))

\* The test on more than one target is missing.
jl_init_processor_pkgimg_AnyNumber(b, st, image, match) ==
    IF st.jit_targets = <<>> THEN jl_error(st, "JIT targets not initialized")
    ELSE parse_sysimg(pkgimg_init_cb(b, st, image, match))

jl_init_processor_pkgimg(b, st, image, match) ==
    IF st.jit_targets = <<>> THEN jl_error(st, "JIT targets not initialized")
    ELSE IF Len(st.jit_targets) > 1 THEN jl_error(st, "Expected only one JIT target")
    ELSE parse_sysimg(pkgimg_init_cb(b, st, image, match))

jl_check_pkgimage_clones(b, st, image, match) ==
    With(pkgimg_init_cb(b, st, image, match), LAMBDA st1 :
        [st1 EXCEPT !.ret = Ret("value", IF st1.ret.val = UINT32_MAX
                                         THEN "rejection_reason" ELSE "jl_nothing")])

\* The loop with require_host for every target, not for the first one only.
RECURSIVE resolve_loop_AllRequireHost(_, _, _, _, _)
resolve_loop_AllRequireHost(b, host, hname, cmdline, targets) ==
    IF Len(targets) = Len(cmdline) THEN targets
    ELSE resolve_loop_AllRequireHost(b, host, hname, cmdline,
             Append(targets, arg_target_data(b, host, hname, cmdline[Len(targets) + 1],
                                             TRUE)))

\* for (auto &arg: cmdline) targets.push_back(arg_target_data(arg, targets.empty()))
RECURSIVE resolve_loop(_, _, _, _, _)
resolve_loop(b, host, hname, cmdline, targets) ==
    IF Len(targets) = Len(cmdline) THEN targets
    ELSE resolve_loop(b, host, hname, cmdline,
             Append(targets, arg_target_data(b, host, hname, cmdline[Len(targets) + 1],
                                             targets = <<>>)))

\* Every target is resolved with require_host.
resolve_cmdline_AllRequireHost(b, host, hname, cmdline) ==
    resolve_loop_AllRequireHost(b, host, hname, cmdline, <<>>)

resolve_cmdline(b, host, hname, cmdline) == resolve_loop(b, host, hname, cmdline, <<>>)

\* for (auto fe: list) if (!test_nbit(features0, fe) && test_nbit(t.en.features, fe))
clone_if(features0, features, list, flag) ==
    IF \E fe \in list : ~test_nbit(features0, fe) /\ test_nbit(features, fe)
    THEN {flag} ELSE {}

\* The `continue` on JL_TARGET_CLONE_ALL is missing.
clone_flags_NoContinue(b, targets, i) ==
    With(targets[i], LAMBDA t :
        With(targets[t.base + 1].en.features, LAMBDA features0 :
                 t.en.flags \cup {"JL_TARGET_CLONE_CPU"} \cup
                 clone_if(features0, t.en.features, {"fp16fml", "fullfp16"},
                          "JL_TARGET_CLONE_FLOAT16") \cup
                 {"JL_TARGET_CLONE_LOOP"} \cup
                 (IF IsAArch64(b) THEN {}
                  ELSE clone_if(features0, t.en.features, {"vfp3", "vfp4", "neon"},
                                "JL_TARGET_CLONE_MATH") \cup
                       clone_if(features0, t.en.features, {"neon"},
                                "JL_TARGET_CLONE_SIMD"))))

\* The body of the loop for the target t = targets[i]: its flags afterwards.
clone_flags(b, targets, i) ==
    With(targets[i], LAMBDA t :
        IF "JL_TARGET_CLONE_ALL" \in t.en.flags THEN t.en.flags
        ELSE With(targets[t.base + 1].en.features, LAMBDA features0 :
                 t.en.flags \cup {"JL_TARGET_CLONE_CPU"} \cup
                 clone_if(features0, t.en.features, {"fp16fml", "fullfp16"},
                          "JL_TARGET_CLONE_FLOAT16") \cup
                 {"JL_TARGET_CLONE_LOOP"} \cup
                 (IF IsAArch64(b) THEN {}
                  ELSE clone_if(features0, t.en.features, {"vfp3", "vfp4", "neon"},
                                "JL_TARGET_CLONE_MATH") \cup
                       clone_if(features0, t.en.features, {"neon"},
                                "JL_TARGET_CLONE_SIMD"))))

\* for (size_t i = 1; i < ntargets; i++): i here is the 1-based index.
RECURSIVE clone_loop(_, _, _)
clone_loop(b, targets, i) ==
    IF i > Len(targets) THEN targets
    ELSE clone_loop(b, [targets EXCEPT ![i].en.flags = clone_flags(b, targets, i)], i + 1)

\* "Now decide the clone condition": the loop over the targets 1 .. n - 1.
decide_clone(b, targets) == clone_loop(b, targets, 2)

\* The early return on a non-empty jit_targets is missing.
ensure_jit_target_Again(b, host, hname, st_jit, ok) ==
    IF ~ok THEN jl_error(st_jit, "check_cmdline")
    ELSE [st_jit EXCEPT !.jit_targets =
              st_jit.jit_targets \o
              decide_clone(b, resolve_cmdline(b, host, hname, st_jit.cmdline))]

\* ensure_jit_target; ok tells whether check_cmdline lets the command line
\* through.
ensure_jit_target(b, host, hname, st_jit, ok) ==
    IF ~ok THEN jl_error(st_jit, "check_cmdline")
    ELSE IF st_jit.jit_targets # <<>> THEN st_jit
    ELSE [st_jit EXCEPT !.jit_targets =
              decide_clone(b, resolve_cmdline(b, host, hname, st_jit.cmdline))]

jl_get_llvm_target(b, host, hname, st, ok) ==
    With(ensure_jit_target(b, host, hname, st, ok), LAMBDA st1 :
        IF st1.err # "" THEN st1
        ELSE [st1 EXCEPT !.ret = Ret("target",
                  [flags |-> st1.jit_targets[1].en.flags,
                   target |-> get_llvm_target_noext(b, st1.jit_targets[1], st1.version)])])

\* The jl_target_spec_t that jl_get_llvm_clone_targets makes of one target.
target_spec(b, target, version) ==
    With({feature_names(b)[i].fe : i \in {j \in 1..nfeature_names(b) :
                                           feature_names(b)[j].llvmver > version}},
         LAMBDA late :
        [cpu |-> get_llvm_target_noext(b, target, version),
         data |-> [name |-> target.name,
                   features_en |-> disable_depends(b, target.en.features \ late),
                   features_dis |-> target.dis.features \ late],
         flags |-> target.en.flags,
         base |-> target.base])

jl_get_llvm_clone_targets(b, host, hname, st, ok) ==
    IF ~ok THEN jl_error(st, "check_cmdline")
    ELSE With(decide_clone(b, resolve_cmdline(b, host, hname, st.cmdline)),
              LAMBDA image_targets :
             IF image_targets = <<>> THEN jl_error(st, "No targets specified")
             ELSE [st EXCEPT !.ret = Ret("specs",
                       SeqOf([i \in 1..Len(image_targets) |->
                                 target_spec(b, image_targets[i], st.version)],
                             Len(image_targets)))])

(***************************************************************************)
(* SpecProcess: one process.  The command line and the host are fixed when *)
(* the process starts; then the entry points are called in any order, any  *)
(* number of times, with any image and any answer of the matcher.  A call  *)
(* that raises an error, or that takes front() of an empty jit_targets,    *)
(* may end the process (halted) or return to a caller that goes on.        *)
(***************************************************************************)
\* "base=n" added to a parsed target.
WithBase(t, n) == [t EXCEPT !.base = n]

\* The target lists that the command line option of the process parses to:
\* one, two and three targets, named, native and unknown, the third one with
\* the second as its base, and an architecture alias with a "-feat".
Cmdlines(b) ==
    With(cmdline_target(b, "generic", {}, {}, {}), LAMBDA generic :
    With(cmdline_target(b, IF IsAArch64(b) THEN "apple-a13" ELSE "cortex-a15", {}, {}, {}),
         LAMBDA big :
        {<<cmdline_target(b, "native", {}, {}, {})>>,
         <<generic>>,
         <<cmdline_target(b, "unknown-cpu",
                          {IF IsAArch64(b) THEN "fullfp16" ELSE "neon"}, {}, {})>>,
         <<generic, cmdline_target(b, "cortex-a57", {"crc"}, {}, {"JL_TARGET_CLONE_ALL"})>>,
         <<cmdline_target(b, "native", {}, {}, {}),
           cmdline_target(b, "generic", {IF IsAArch64(b) THEN "fullfp16" ELSE "vfp3"},
                          {}, {})>>,
         <<cmdline_target(b, IF IsAArch64(b) THEN "cortex-a75" ELSE "cortex-a7",
                          {}, {"crc"}, {}), big>>,
         <<generic,
           cmdline_target(b, "cortex-a72", {}, {IF IsAArch64(b) THEN "crc" ELSE "neon"}, {}),
           WithBase(big, 1)>>,
         <<cmdline_target(b, IF IsAArch64(b) THEN "armv8.1-a" ELSE "armv8-a", {},
                          {IF IsAArch64(b) THEN "lse" ELSE "neon"}, {})>>}))

\* The builds of the processes: both AArch64 ones and the A profile of AArch32.
ProcessBuilds == {b \in Builds : IsAArch64(b) \/ b.ARM_ARCH_PROFILE = "A"}

ProcessVersions == {100000, 140000}

\* The hosts of HostSamples whose cores are known.
ProcessHosts(b) == {os \in HostSamples(b) : CoreUnknown \notin os.cpuinfo /\ "M1" \notin os.brand}

Variant(flags) == [en |-> [flags |-> flags]]

Images == {<<Variant({})>>, <<Variant({}), Variant({"JL_TARGET_VEC_CALL"})>>}

VregSizes(b) == IF IsAArch64(b) THEN {16, 128} ELSE {8, 16}

Matches(b, image) ==
    [best_idx : (0..(Len(image) - 1)) \cup {UINT32_MAX}, vreg_size : VregSizes(b)]

NoCall == [image |-> <<>>, match |-> [best_idx |-> UINT32_MAX, vreg_size |-> 0], ok |-> TRUE]

InitProcess ==
    /\ build \in ProcessBuilds
    /\ \E os \in ProcessHosts(build) :
          /\ host_cpu = _get_host_cpu(build, os)
          /\ host_name = host_cpu_name(build, host_cpu, "generic")
    /\ op = "init"
    /\ arg = NoCall
    /\ \E cmdline \in Cmdlines(build), version \in ProcessVersions :
          res = [cmdline |-> cmdline, version |-> version, jit_targets |-> <<>>,
                 cb |-> <<>>, err |-> "", ret |-> Ret("", 0), ub |-> FALSE,
                 sysimg_called |-> FALSE, halted |-> FALSE]

\* How a call ends: what a process does after front() of an empty
\* jit_targets is not followed.
Finish(st_end) == [st_end EXCEPT !.halted = st_end.ub]

JlInitProcessorSysimg ==
    /\ ~res.halted
    /\ op' = "jl_init_processor_sysimg"
    /\ \E image \in Images : \E match \in Matches(build, image) :
          /\ arg' = [image |-> image, match |-> match, ok |-> TRUE]
          /\ res' = Finish([jl_init_processor_sysimg(build, host_cpu, host_name,
                                enter(res), image, match)
                            EXCEPT !.sysimg_called = TRUE])
    /\ UNCHANGED <<build, host_cpu, host_name>>

JlInitProcessorPkgimg ==
    /\ ~res.halted
    /\ op' = "jl_init_processor_pkgimg"
    /\ \E image \in Images : \E match \in Matches(build, image) :
          /\ arg' = [image |-> image, match |-> match, ok |-> TRUE]
          /\ res' = Finish(jl_init_processor_pkgimg(build, enter(res), image, match))
    /\ UNCHANGED <<build, host_cpu, host_name>>

JlCheckPkgimageClones ==
    /\ ~res.halted
    /\ op' = "jl_check_pkgimage_clones"
    /\ \E image \in Images : \E match \in Matches(build, image) :
          /\ arg' = [image |-> image, match |-> match, ok |-> TRUE]
          /\ res' = Finish(jl_check_pkgimage_clones(build, enter(res), image, match))
    /\ UNCHANGED <<build, host_cpu, host_name>>

JlGetLlvmTarget ==
    /\ ~res.halted
    /\ op' = "jl_get_llvm_target"
    /\ \E ok \in BOOLEAN :
          /\ arg' = [NoCall EXCEPT !.ok = ok]
          /\ res' = Finish(jl_get_llvm_target(build, host_cpu, host_name, enter(res), ok))
    /\ UNCHANGED <<build, host_cpu, host_name>>

JlGetLlvmCloneTargets ==
    /\ ~res.halted
    /\ op' = "jl_get_llvm_clone_targets"
    /\ \E ok \in BOOLEAN :
          /\ arg' = [NoCall EXCEPT !.ok = ok]
          /\ res' = Finish(jl_get_llvm_clone_targets(build, host_cpu, host_name,
                                                     enter(res), ok))
    /\ UNCHANGED <<build, host_cpu, host_name>>

NextProcess ==
    \/ JlInitProcessorSysimg
    \/ JlInitProcessorPkgimg
    \/ JlCheckPkgimageClones
    \/ JlGetLlvmTarget
    \/ JlGetLlvmCloneTargets

SpecProcess == InitProcess /\ [][NextProcess]_vars

(***************************************************************************)
(* Claims on the initialisation order (SpecProcess).                       *)
(***************************************************************************)
AlreadyInitialized == "JIT targets already initialized"

\* C11 as stated: a call of jl_init_processor_sysimg made after an earlier
\* call of it fails with "JIT targets already initialized" and does not run
\* the image match.
C11_SecondCallFails ==
    [][(op' = "jl_init_processor_sysimg" /\ res.sysimg_called)
       => (res'.err = AlreadyInitialized /\ res'.cb = <<>>)]_vars

\* C11, amended: a call of jl_init_processor_sysimg made while jit_targets is
\* non-empty (as after an earlier call whose match found a variant) fails with
\* "JIT targets already initialized" and does not run the image match.
C11_CallOnInitializedFails ==
    [][(op' = "jl_init_processor_sysimg" /\ res.jit_targets # <<>>)
       => (res'.err = AlreadyInitialized /\ res'.cb = <<>>)]_vars

\* A second call that failed, after a first one that published its target.
C11_Witness ==
    /\ op = "jl_init_processor_sysimg"
    /\ res.err = AlreadyInitialized
    /\ res.cb = <<>>
    /\ Len(res.jit_targets) = 1
    /\ res.jit_targets[1].name = "generic"

\* C12: jl_init_processor_pkgimg raises an error and does not run the match
\* callback when jit_targets is empty or has more than one entry; with exactly
\* one entry it runs the callback.
C12_PkgimgNeedsOneTarget ==
    [][op' = "jl_init_processor_pkgimg"
       => IF Len(res.jit_targets) = 1
          THEN res'.cb = <<"pkgimg_init_cb">>
          ELSE /\ res'.cb = <<>>
               /\ res'.ret.tag = "jl_error"
               /\ res'.err = (IF res.jit_targets = <<>> THEN "JIT targets not initialized"
                              ELSE "Expected only one JIT target")]_vars

\* jl_init_processor_pkgimg has refused a list of two or three targets.
C12_Witness ==
    /\ op = "jl_init_processor_pkgimg"
    /\ Len(res.jit_targets) > 1
    /\ res.err = "Expected only one JIT target"
    /\ res.cb = <<>>

\* C13: whenever pkgimg_init_cb has run, through jl_init_processor_pkgimg or
\* through jl_check_pkgimage_clones, jit_targets holds exactly one entry, so
\* front() is never taken of an empty list.
C13_CallbackSeesOneTarget ==
    res.cb = <<"pkgimg_init_cb">> => (Len(res.jit_targets) = 1 /\ ~res.ub)

\* C14: once jit_targets is non-empty no call changes it: not its length and
\* not the name, features, flags or base of an entry.
C14_JitTargetsFrozen ==
    [][res.jit_targets # <<>> => res'.jit_targets = res.jit_targets]_vars

\* jl_get_llvm_target has returned in a process whose command line names two
\* targets and whose jit_targets is the one target that sysimg_init_cb pushed.
C14_Witness ==
    /\ op = "jl_get_llvm_target"
    /\ res.ret.tag = "target"
    /\ res.sysimg_called
    /\ Len(res.cmdline) = 2
    /\ Len(res.jit_targets) = 1

(***************************************************************************)
(* SpecHostOnce: threads calling get_host_cpu().  host_cpu is the function *)
(* local static `static auto host_cpu = _get_host_cpu();`, which the       *)
(* language initialises under a guard: the first thread to arrive runs the *)
(* initialiser, threads that arrive meanwhile wait, later ones skip it.    *)
(* res is a record:                                                        *)
(*   guard   "uninit", "running" or "done"                                 *)
(*   pc      the position of each thread: "idle", "guard", "init", "wait", *)
(*           "return"                                                      *)
(*   seen    what the last call of each thread returned: <<>> or <<v>>     *)
(*   evals   the number of evaluations of _get_host_cpu                    *)
(*   waited  some thread has waited for the initialiser of another         *)
(* Each evaluation of _get_host_cpu reads what the system reports then.    *)
(***************************************************************************)
MaxThreads == 3

Threads == 1..MaxThreads

\* The guard is tested and set in two steps: a thread that finds it unset
\* runs the initialiser without marking the guard.
guard_acquire_Unlocked(guard) ==
    IF guard = "done" THEN [pc |-> "return", guard |-> guard]
    ELSE [pc |-> "init", guard |-> guard]

\* What a thread does on reaching the declaration of the static, by the
\* state of its guard: where it goes, and the guard afterwards.
guard_acquire(guard) ==
    IF guard = "done" THEN [pc |-> "return", guard |-> guard]
    ELSE IF guard = "uninit" THEN [pc |-> "init", guard |-> "running"]
    ELSE [pc |-> "wait", guard |-> guard]

InitHostOnce ==
    /\ build \in ProcessBuilds
    /\ host_cpu = NoHost
    /\ host_name = ""
    /\ op = "init"
    /\ arg = 0
    /\ res = [guard |-> "uninit", pc |-> [t \in Threads |-> "idle"],
              seen |-> [t \in Threads |-> <<>>], evals |-> 0, waited |-> FALSE]

\* A thread calls get_host_cpu().
CallGetHostCpu(t) ==
    /\ res.pc[t] = "idle"
    /\ op' = "get_host_cpu"
    /\ arg' = t
    /\ res' = [res EXCEPT !.pc[t] = "guard"]
    /\ UNCHANGED <<build, host_cpu, host_name>>

\* It reaches the declaration of the static.
GuardAcquire(t) ==
    /\ res.pc[t] = "guard"
    /\ op' = "guard_acquire"
    /\ arg' = t
    /\ res' = [res EXCEPT !.pc[t] = guard_acquire(res.guard).pc,
                          !.guard = guard_acquire(res.guard).guard,
                          !.waited = res.waited \/ guard_acquire(res.guard).pc = "wait"]
    /\ UNCHANGED <<build, host_cpu, host_name>>

\* The initialiser: host_cpu = _get_host_cpu(), then the guard is released.
RunInitializer(t) ==
    /\ res.pc[t] = "init"
    /\ op' = "_get_host_cpu"
    /\ arg' = t
    /\ \E os \in ProcessHosts(build) : host_cpu' = _get_host_cpu(build, os)
    /\ res' = [res EXCEPT !.pc[t] = "return", !.guard = "done",
                          !.evals = res.evals + 1]
    /\ UNCHANGED <<build, host_name>>

\* A waiting thread goes on when the initialiser of the other thread is over.
GuardWait(t) ==
    /\ res.pc[t] = "wait"
    /\ res.guard = "done"
    /\ op' = "guard_wait"
    /\ arg' = t
    /\ res' = [res EXCEPT !.pc[t] = "return"]
    /\ UNCHANGED <<build, host_cpu, host_name>>

\* return host_cpu;
ReturnHostCpu(t) ==
    /\ res.pc[t] = "return"
    /\ op' = "return"
    /\ arg' = t
    /\ res' = [res EXCEPT !.pc[t] = "idle", !.seen[t] = <<host_cpu>>]
    /\ UNCHANGED <<build, host_cpu, host_name>>

NextHostOnce ==
    \E t \in Threads :
        \/ CallGetHostCpu(t)
        \/ GuardAcquire(t)
        \/ RunInitializer(t)
        \/ GuardWait(t)
        \/ ReturnHostCpu(t)

SpecHostOnce == InitHostOnce /\ [][NextHostOnce]_vars

\* C15: however many threads call get_host_cpu() at once, _get_host_cpu is
\* evaluated once, and each value a call has returned is the value of host_cpu
\* now: the callers see the same value and it never changes.
C15_HostEvaluatedOnce ==
    /\ res.evals <= 1
    /\ \A t \in Threads : res.seen[t] # <<>> => (res.evals = 1 /\ res.seen[t] = <<host_cpu>>)

\* Every thread has its value, and some thread arrived while the initialiser
\* of another one was running.
C15_Witness ==
    /\ res.waited
    /\ res.evals = 1
    /\ \A t \in Threads : res.seen[t] = <<host_cpu>>

(***************************************************************************)
(* SpecFeatureTest: jl_test_cpu_feature on the host of the process.  A     *)
(* FeatureList is modelled here as it is stored: feature_sz words, each    *)
(* the set of the positions 0 .. 31 of its set bits.  A read past the last *)
(* word is undefined: it may give either answer.  res is a record of the   *)
(* value returned (ret) and whether the call read out of bounds (oob).     *)
(***************************************************************************)
MaxFeature == 100

\* The words of the feature vector whose set bits are those of features.
feature_words(b, features) ==
    [k \in 1..feature_sz |->
        {feature_names(b)[i].bit % 32 :
            i \in {j \in 1..nfeature_names(b) :
                      /\ feature_names(b)[j].fe \in features
                      /\ feature_names(b)[j].bit \div 32 = k - 1}}]

\* test_nbit(&bits[0], bitidx): the answers the read may give, with whether
\* it is a read out of bounds.
test_nbit_words(bits, bitidx) ==
    IF bitidx \div 32 + 1 \in DOMAIN bits
    THEN {[ret |-> IF bitidx % 32 \in bits[bitidx \div 32 + 1] THEN 1 ELSE 0, oob |-> FALSE]}
    ELSE {[ret |-> 0, oob |-> TRUE], [ret |-> 1, oob |-> TRUE]}

\* The test on the bit number is missing.
jl_test_cpu_feature_NoBound(b, host, feature) ==
    test_nbit_words(feature_words(b, host.second), feature)

jl_test_cpu_feature(b, host, feature) ==
    IF feature >= 32 * feature_sz THEN {[ret |-> 0, oob |-> FALSE]}
    ELSE test_nbit_words(feature_words(b, host.second), feature)

InitFeatureTest ==
    /\ build \in ProcessBuilds
    /\ \E os \in ProcessHosts(build) :
          /\ host_cpu = _get_host_cpu(build, os)
          /\ host_name = host_cpu_name(build, host_cpu, "generic")
    /\ op = "init"
    /\ arg = 0
    /\ res = [ret |-> 0, oob |-> FALSE]

JlTestCpuFeature ==
    /\ op' = "jl_test_cpu_feature"
    /\ \E feature \in 0..MaxFeature :
          /\ arg' = feature
          /\ res' \in jl_test_cpu_feature(build, host_cpu, feature)
    /\ UNCHANGED <<build, host_cpu, host_name>>

NextFeatureTest == JlTestCpuFeature

SpecFeatureTest == InitFeatureTest /\ [][NextFeatureTest]_vars

\* C16: jl_test_cpu_feature never reads out of bounds; it returns 0 for a bit
\* number of 96 or more and, below 96, 1 exactly if that bit is set in the
\* host feature vector.
C16_FeatureTestInBounds ==
    op = "jl_test_cpu_feature"
    => /\ ~res.oob
       /\ res.ret = (IF arg < 96 /\ \E fe \in host_cpu.second : FeatureBit(build, fe) = arg
                     THEN 1 ELSE 0)

\* A bit number past the vector has been answered on a host that has
\* features.
C16_Witness ==
    /\ op = "jl_test_cpu_feature"
    /\ arg >= 96
    /\ res.ret = 0
    /\ host_cpu.second # {}

(***************************************************************************)
(* Claims on the emitter and on the resolved targets (SpecProcess).        *)
(***************************************************************************)
\* The feature lists that the last call returned: that of target 0 from
\* jl_get_llvm_target, those of all the targets from
\* jl_get_llvm_clone_targets.
EmittedLists ==
    IF res.ret.tag = "target" THEN {res.ret.val.target.second}
    ELSE IF res.ret.tag = "specs"
    THEN {res.ret.val[i].cpu.second : i \in 1..Len(res.ret.val)}
    ELSE {}

\* The names that the loop over feature_names can emit: those of the bits of
\* the first two words.
PerFeatureNames(b) ==
    {feature_names(b)[i].name : i \in {k \in 1..nfeature_names(b) :
                                          feature_names(b)[k].bit < 32 * 2}}

\* C17 as stated: in an emitted feature list every token that starts with "+"
\* precedes every token that starts with "-".
C17_PlusBeforeMinus ==
    \A strs \in EmittedLists : \A i, j \in 1..Len(strs) :
        (strs[i].sign = "+" /\ strs[j].sign = "-") => i < j

\* C17, amended: every per-feature token that starts with "+" precedes every
\* token that starts with "-", and the alias tokens appended after the loop,
\* which all start with "+", follow every token that starts with "-".
C17_PerFeaturePlusBeforeMinus ==
    \A strs \in EmittedLists : \A i, j \in 1..Len(strs) :
        (strs[i].sign = "+" /\ strs[j].sign = "-")
        => IF strs[i].name \in PerFeatureNames(build) THEN i < j ELSE j < i

\* A list has been emitted with a per-feature "+" token, a "-" token and an
\* alias token of a version bit.
C17_Witness ==
    \E strs \in EmittedLists : \E i, j, k \in 1..Len(strs) :
        /\ strs[i] = FeatureStr("+", "crc")
        /\ strs[j].sign = "-"
        /\ strs[k] = FeatureStr("+", "v8.1a")

\* The flags that the clone decision sets.
AutoCloneFlags ==
    {"JL_TARGET_CLONE_CPU", "JL_TARGET_CLONE_LOOP", "JL_TARGET_CLONE_FLOAT16",
     "JL_TARGET_CLONE_MATH", "JL_TARGET_CLONE_SIMD"}

\* The target lists whose clone flags the last call decided, each target
\* with its resolved features, its flags and its base: jit_targets, and the
\* targets that jl_get_llvm_clone_targets returned.
DecidedLists ==
    {res.jit_targets} \cup
    (IF res.ret.tag = "specs"
     THEN {SeqOf([i \in 1..Len(res.ret.val) |->
                     [en |-> [features |-> resolve_cmdline(build, host_cpu, host_name,
                                                           res.cmdline)[i].en.features,
                              flags |-> res.ret.val[i].flags],
                      base |-> res.ret.val[i].base]], Len(res.ret.val))}
     ELSE {})

\* C18: target 0 and the targets with JL_TARGET_CLONE_ALL get no automatic
\* clone flag; every other target gets CLONE_CPU and CLONE_LOOP, CLONE_FLOAT16
\* exactly if it enables fp16fml or fullfp16 that its base does not, and on
\* AArch32 CLONE_MATH exactly if it enables one of vfp3, vfp4, neon that its
\* base does not and CLONE_SIMD exactly if it enables neon and its base not.
C18_CloneFlags ==
    \A ts \in DecidedLists : \A i \in 1..Len(ts) :
        ts[i].en.flags \cap AutoCloneFlags =
            IF i = 1 \/ "JL_TARGET_CLONE_ALL" \in ts[i].en.flags THEN {}
            ELSE {"JL_TARGET_CLONE_CPU", "JL_TARGET_CLONE_LOOP"} \cup
                 {"JL_TARGET_CLONE_FLOAT16" : fe \in
                     ({"fp16fml", "fullfp16"} \cap ts[i].en.features)
                         \ ts[ts[i].base + 1].en.features} \cup
                 (IF IsAArch64(build) THEN {}
                  ELSE {"JL_TARGET_CLONE_MATH" : fe \in
                           ({"vfp3", "vfp4", "neon"} \cap ts[i].en.features)
                               \ ts[ts[i].base + 1].en.features} \cup
                       {"JL_TARGET_CLONE_SIMD" : fe \in
                           ({"neon"} \cap ts[i].en.features)
                               \ ts[ts[i].base + 1].en.features})

\* jl_get_llvm_clone_targets has returned three targets, the third one with
\* the second as its base and with a flag for a feature its base lacks.
C18_Witness ==
    /\ op = "jl_get_llvm_clone_targets"
    /\ res.ret.tag = "specs"
    /\ Len(res.ret.val) = 3
    /\ res.ret.val[3].base = 1
    /\ res.ret.val[3].flags \cap {"JL_TARGET_CLONE_FLOAT16", "JL_TARGET_CLONE_SIMD"} # {}
    /\ res.ret.val[2].flags \cap {"JL_TARGET_CLONE_FLOAT16", "JL_TARGET_CLONE_SIMD"} = {}

\* C19 as stated: on AArch64, target 1 of "generic;cortex-a57,+crc,clone_all"
\* is resolved with crc, aes and sha2 enabled.
C19_A57HasCrcAesSha2 ==
    (/\ IsAArch64(build)
     /\ Len(res.cmdline) = 2
     /\ res.cmdline[1].name = "generic"
     /\ res.cmdline[2].name = "cortex-a57"
     /\ Len(res.jit_targets) = 2)
    => {"crc", "aes", "sha2"} \subseteq res.jit_targets[2].en.features

\* C19, amended: on AArch64, target 1 of "generic;cortex-a57,+crc,clone_all"
\* is resolved with crc enabled and with aes and sha2 not enabled: the base
\* feature set of cortex-a57 in the catalog is crc alone.
C19_A57HasCrcOnly ==
    (/\ IsAArch64(build)
     /\ Len(res.cmdline) = 2
     /\ res.cmdline[1].name = "generic"
     /\ res.cmdline[2].name = "cortex-a57"
     /\ Len(res.jit_targets) = 2)
    => res.jit_targets[2].en.features \cap {"crc", "aes", "sha2"} = {"crc"}

\* The two targets of "generic;cortex-a57,+crc,clone_all" have been resolved
\* on an AArch64 host that has no crc itself.
C19_Witness ==
    /\ IsAArch64(build)
    /\ Len(res.cmdline) = 2
    /\ res.cmdline[2].name = "cortex-a57"
    /\ Len(res.jit_targets) = 2
    /\ res.jit_targets[2].name = "cortex-a57"
    /\ "JL_TARGET_CLONE_ALL" \in res.jit_targets[2].en.flags
    /\ "crc" \notin host_cpu.second

\* C20 as stated: on AArch64, for the host Apple M2, the target "native" and
\* the backend version 14, the emitted feature list begins with +neon,
\* +fp-armv8, +v8.5a, +v8.4a, +v8.3a, +v8.2a, +v8.1a.
C20_AliasTokensFirst ==
    (/\ IsAArch64(build)
     /\ host_name = "apple-m2"
     /\ res.cmdline[1].name = "native"
     /\ res.version = 140000
     /\ res.ret.tag = "target")
    => /\ Len(res.ret.val.target.second) >= 7
       /\ SubSeq(res.ret.val.target.second, 1, 7) =
             <<FeatureStr("+", "neon"), FeatureStr("+", "fp-armv8"),
               FeatureStr("+", "v8.5a"), FeatureStr("+", "v8.4a"),
               FeatureStr("+", "v8.3a"), FeatureStr("+", "v8.2a"),
               FeatureStr("+", "v8.1a")>>

\* C20, amended: in that case the emitted feature list ends with +v8.5a,
\* +v8.4a, +v8.3a, +v8.2a, +v8.1a, +neon, +fp-armv8, and every token before
\* them is a per-feature token.
C20_AliasTokensLast ==
    (/\ IsAArch64(build)
     /\ host_name = "apple-m2"
     /\ res.cmdline[1].name = "native"
     /\ res.version = 140000
     /\ res.ret.tag = "target")
    => /\ Len(res.ret.val.target.second) >= 7
       /\ SubSeq(res.ret.val.target.second, Len(res.ret.val.target.second) - 6,
                 Len(res.ret.val.target.second)) =
             <<FeatureStr("+", "v8.5a"), FeatureStr("+", "v8.4a"),
               FeatureStr("+", "v8.3a"), FeatureStr("+", "v8.2a"),
               FeatureStr("+", "v8.1a"), FeatureStr("+", "neon"),
               FeatureStr("+", "fp-armv8")>>
       /\ \A i \in 1..(Len(res.ret.val.target.second) - 7) :
             res.ret.val.target.second[i].name \in PerFeatureNames(build)

\* jl_get_llvm_target has answered for "native" on an Apple M2 with the
\* backend version 14: the name falls back to apple-m1 and the list has
\* per-feature tokens of both signs.
C20_Witness ==
    /\ op = "jl_get_llvm_target"
    /\ host_name = "apple-m2"
    /\ res.cmdline[1].name = "native"
    /\ res.version = 140000
    /\ res.ret.tag = "target"
    /\ res.ret.val.target.first = "apple-m1"
    /\ res.ret.val.target.second[1].sign = "+"
    /\ \E i \in 1..Len(res.ret.val.target.second) : res.ret.val.target.second[i].sign = "-"

(***************************************************************************)
(* SpecFpcr: the four operations on the floating point control register.   *)
(* A register value is the set of the numbers of its set bits.  res is a   *)
(* record:                                                                 *)
(*   fpcr   the control register of the calling thread                     *)
(*   fpcr0  the register when the process started                          *)
(*   fz     the truth value of the argument of the last                    *)
(*          jl_set_zero_subnormals: <<>> before the first call, else <<v>> *)
(*   dn     the same for jl_set_default_nans                               *)
(*   ret    the value the last call returned                               *)
(***************************************************************************)
\* FPCR FZ, bit [24]
fpcr_fz_mask == {24}

\* FPCR FZ16, bit [19]
fpcr_fz16_mask == {19}

\* FPCR DN, bit [25]
fpcr_dn_mask == {25}

\* The register bits of the model: FZ16, RMode (one bit of it), FZ, DN.
FpcrBits == {19, 22, 24, 25}

\* The int8_t arguments of the model.
Int8Samples == {0, 1, -128}

jl_get_zero_subnormals(b, fpcr) ==
    IF IsAArch64(b) THEN (IF fpcr \cap fpcr_fz_mask # {} THEN 1 ELSE 0) ELSE 0

\* The AArch32 stub returns 0 whatever it is asked.
jl_set_zero_subnormals_StubReturnsZero(b, host, fpcr, isZero) ==
    IF IsAArch64(b)
    THEN With(fpcr_fz_mask \cup
              (IF \E r \in jl_test_cpu_feature(b, host, FeatureBit(b, "fullfp16")) : r.ret # 0
               THEN fpcr_fz16_mask ELSE {}), LAMBDA mask :
             [fpcr |-> IF isZero # 0 THEN fpcr \cup mask ELSE fpcr \ mask, ret |-> 0])
    ELSE [fpcr |-> fpcr, ret |-> 0]

\* The mask is FZ alone, whatever the host.
jl_set_zero_subnormals_NoFz16(b, host, fpcr, isZero) ==
    IF IsAArch64(b)
    THEN [fpcr |-> IF isZero # 0 THEN fpcr \cup fpcr_fz_mask ELSE fpcr \ fpcr_fz_mask,
          ret |-> 0]
    ELSE [fpcr |-> fpcr, ret |-> isZero]

\* jl_set_zero_subnormals(isZero): the register and the value returned.
jl_set_zero_subnormals(b, host, fpcr, isZero) ==
    IF IsAArch64(b)
    THEN With(fpcr_fz_mask \cup
              (IF \E r \in jl_test_cpu_feature(b, host, FeatureBit(b, "fullfp16")) : r.ret # 0
               THEN fpcr_fz16_mask ELSE {}), LAMBDA mask :
             [fpcr |-> IF isZero # 0 THEN fpcr \cup mask ELSE fpcr \ mask, ret |-> 0])
    ELSE [fpcr |-> fpcr, ret |-> isZero]

jl_get_default_nans(b, fpcr) ==
    IF IsAArch64(b) THEN (IF fpcr \cap fpcr_dn_mask # {} THEN 1 ELSE 0) ELSE 0

\* jl_set_default_nans(isDefault): the register and the value returned.
jl_set_default_nans(b, fpcr, isDefault) ==
    IF IsAArch64(b)
    THEN [fpcr |-> IF isDefault # 0 THEN fpcr \cup fpcr_dn_mask ELSE fpcr \ fpcr_dn_mask,
          ret |-> 0]
    ELSE [fpcr |-> fpcr, ret |-> isDefault]

InitFpcr ==
    /\ build \in ProcessBuilds
    /\ \E os \in ProcessHosts(build) :
          /\ host_cpu = _get_host_cpu(build, os)
          /\ host_name = host_cpu_name(build, host_cpu, "generic")
    /\ op = "init"
    /\ arg = 0
    /\ \E fpcr \in SUBSET FpcrBits :
          res = [fpcr |-> fpcr, fpcr0 |-> fpcr, fz |-> <<>>, dn |-> <<>>, ret |-> 0]

JlGetZeroSubnormals ==
    /\ op' = "jl_get_zero_subnormals"
    /\ arg' = 0
    /\ res' = [res EXCEPT !.ret = jl_get_zero_subnormals(build, res.fpcr)]
    /\ UNCHANGED <<build, host_cpu, host_name>>

JlSetZeroSubnormals ==
    /\ op' = "jl_set_zero_subnormals"
    /\ \E isZero \in Int8Samples :
          /\ arg' = isZero
          /\ res' = [res EXCEPT
                        !.fpcr = jl_set_zero_subnormals(build, host_cpu, res.fpcr, isZero).fpcr,
                        !.ret = jl_set_zero_subnormals(build, host_cpu, res.fpcr, isZero).ret,
                        !.fz = <<isZero # 0>>]
    /\ UNCHANGED <<build, host_cpu, host_name>>

JlGetDefaultNans ==
    /\ op' = "jl_get_default_nans"
    /\ arg' = 0
    /\ res' = [res EXCEPT !.ret = jl_get_default_nans(build, res.fpcr)]
    /\ UNCHANGED <<build, host_cpu, host_name>>

JlSetDefaultNans ==
    /\ op' = "jl_set_default_nans"
    /\ \E isDefault \in Int8Samples :
          /\ arg' = isDefault
          /\ res' = [res EXCEPT
                        !.fpcr = jl_set_default_nans(build, res.fpcr, isDefault).fpcr,
                        !.ret = jl_set_default_nans(build, res.fpcr, isDefault).ret,
                        !.dn = <<isDefault # 0>>]
    /\ UNCHANGED <<build, host_cpu, host_name>>

NextFpcr ==
    \/ JlGetZeroSubnormals
    \/ JlSetZeroSubnormals
    \/ JlGetDefaultNans
    \/ JlSetDefaultNans

SpecFpcr == InitFpcr /\ [][NextFpcr]_vars

\* C21 as stated: on AArch32 each of the four operations returns 0 for every
\* argument and leaves the register alone.
C21_StubsReturnZero ==
    (~IsAArch64(build) /\ op # "init") => (res.ret = 0 /\ res.fpcr = res.fpcr0)

\* C21, amended: on AArch32 the two getters return 0, the two setters return
\* their argument (0 only when asked to clear the mode), and none of the four
\* has a side effect.
C21_StubsReturnArgument ==
    (~IsAArch64(build) /\ op # "init")
    => /\ res.fpcr = res.fpcr0
       /\ res.ret = (IF op \in {"jl_set_zero_subnormals", "jl_set_default_nans"}
                     THEN arg ELSE 0)

\* The AArch32 stub has been asked to set flush-to-zero and has answered 1.
C21_Witness ==
    /\ ~IsAArch64(build)
    /\ op = "jl_set_zero_subnormals"
    /\ arg = 1
    /\ res.ret = 1
    /\ res.fpcr = res.fpcr0

\* Whether the host of this process has the feature fullfp16.
HostHasFullFp16 == test_nbit(host_cpu.second, "fullfp16")

\* C22: on AArch64, after any sequence of the four operations, FZ is what the
\* last jl_set_zero_subnormals asked for, FZ16 follows it exactly when the host
\* has fullfp16 and otherwise keeps its first value, DN is what the last
\* jl_set_default_nans asked for, every other bit keeps its first value, both
\* setters return 0, and a getter returns the bit it reads.
C22_FpcrBits ==
    IsAArch64(build)
    => /\ res.fpcr \ {19, 24, 25} = res.fpcr0 \ {19, 24, 25}
       /\ (24 \in res.fpcr) = (IF res.fz = <<>> THEN 24 \in res.fpcr0 ELSE res.fz[1])
       /\ (19 \in res.fpcr) = (IF res.fz = <<>> \/ ~HostHasFullFp16
                               THEN 19 \in res.fpcr0 ELSE res.fz[1])
       /\ (25 \in res.fpcr) = (IF res.dn = <<>> THEN 25 \in res.fpcr0 ELSE res.dn[1])
       /\ (op = "jl_get_zero_subnormals" => res.ret = (IF 24 \in res.fpcr THEN 1 ELSE 0))
       /\ (op = "jl_get_default_nans" => res.ret = (IF 25 \in res.fpcr THEN 1 ELSE 0))
       /\ (op \in {"jl_set_zero_subnormals", "jl_set_default_nans"} => res.ret = 0)

\* On a host with fullfp16, flush-to-zero was set while FZ16 and DN were clear,
\* the other mode was written since, and the getter answers 1.
C22_Witness ==
    /\ IsAArch64(build)
    /\ HostHasFullFp16
    /\ res.fpcr0 = {22}
    /\ res.fz = <<TRUE>>
    /\ res.dn = <<FALSE>>
    /\ op = "jl_get_zero_subnormals"
    /\ res.ret = 1
    /\ res.fpcr = {19, 22, 24}

\* On a host without fullfp16, flush-to-zero was set and FZ16 stayed clear.
C22_WitnessNoFp16 ==
    /\ IsAArch64(build)
    /\ ~HostHasFullFp16
    /\ res.fz = <<TRUE>>
    /\ res.fpcr = {24}

(***************************************************************************)
(* SpecHostBits: _get_host_cpu of the builds that read the auxiliary       *)
(* vector, with the feature vector as the set of the numbers of its set    *)
(* bits, so that bits no feature names are visible.                        *)
(***************************************************************************)
\* The bits of a set of features.
FeatureBits(b, features) == {FeatureBit(b, fe) : fe \in features}

\* mask_features(masks, features): features[i] &= masks[i] for every word.
mask_features(masks, features) == features \cap masks

\* The final mask is real_feature_masks.
get_host_cpu_bits_RealMask(b, os) ==
    With(get_host_cpu_auxv(b, os), LAMBDA named :
    With(get_elf_arch(b, os.machine), LAMBDA arch :
    With(scan_cpuinfo(b, arch, SetToSeq(os.cpuinfo),
                      [extra_initialized |-> FALSE, extra_features |-> {},
                       cpus |-> {}, list |-> <<>>]), LAMBDA st :
    With(hwcap_bits(os)
         \cup (IF IsAArch64(b) /\ 31 \in hwcap_bits(os) THEN {FeatureBit(b, "pauth")} ELSE {})
         \cup (IF IsAArch64(b) \/ arch.version < 7 THEN {}
               ELSE CASE arch.klass = "M" -> {FeatureBit(b, "mclass")}
                      [] arch.klass = "R" -> {FeatureBit(b, "rclass")}
                      [] arch.klass = "A" -> {FeatureBit(b, "aclass")}
                      [] OTHER -> {})
         \cup (IF IsAArch64(b) THEN {}
               ELSE CASE arch.version = 8 -> {FeatureBit(b, "v8"), FeatureBit(b, "v7")}
                      [] arch.version = 7 -> {FeatureBit(b, "v7")}
                      [] OTHER -> {})
         \cup FeatureBits(b, st.extra_features), LAMBDA features :
        [first |-> named.first,
         unmasked |-> features,
         second |-> mask_features(FeatureBits(b, real_feature_masks(b)), features)]))))

\* _get_host_cpu on the bits: first is the CPU, unmasked the vector before
\* the last statement, second the vector returned.
get_host_cpu_bits(b, os) ==
    With(get_host_cpu_auxv(b, os), LAMBDA named :
    With(get_elf_arch(b, os.machine), LAMBDA arch :
    With(scan_cpuinfo(b, arch, SetToSeq(os.cpuinfo),
                      [extra_initialized |-> FALSE, extra_features |-> {},
                       cpus |-> {}, list |-> <<>>]), LAMBDA st :
    With(hwcap_bits(os)
         \cup (IF IsAArch64(b) /\ 31 \in hwcap_bits(os) THEN {FeatureBit(b, "pauth")} ELSE {})
         \cup (IF IsAArch64(b) \/ arch.version < 7 THEN {}
               ELSE CASE arch.klass = "M" -> {FeatureBit(b, "mclass")}
                      [] arch.klass = "R" -> {FeatureBit(b, "rclass")}
                      [] arch.klass = "A" -> {FeatureBit(b, "aclass")}
                      [] OTHER -> {})
         \cup (IF IsAArch64(b) THEN {}
               ELSE CASE arch.version = 8 -> {FeatureBit(b, "v8"), FeatureBit(b, "v7")}
                      [] arch.version = 7 -> {FeatureBit(b, "v7")}
                      [] OTHER -> {})
         \cup FeatureBits(b, st.extra_features), LAMBDA features :
        [first |-> named.first,
         unmasked |-> features,
         second |-> mask_features(FeatureBits(b, feature_masks(b)), features)]))))

\* Bits of AT_HWCAP and AT_HWCAP2 the kernel may report besides those of the
\* sample: 0 and 1 of AT_HWCAP, 31 of AT_HWCAP2; no feature has these numbers.
StrayHwcap == [hwcap : SUBSET {0, 1}, hwcap2 : SUBSET {31}]

AuxvBuilds == {b \in Builds : ~(IsAArch64(b) /\ b.os = "darwin")}

InitHostBits ==
    /\ build \in AuxvBuilds
    /\ \E os \in HostSamples(build), stray \in StrayHwcap :
          arg = [os EXCEPT !.hwcap = os.hwcap \cup stray.hwcap,
                           !.hwcap2 = os.hwcap2 \cup stray.hwcap2]
    /\ host_cpu = NoHost
    /\ host_name = "generic"
    /\ op = "init"
    /\ res = [first |-> "generic", unmasked |-> {}, second |-> {}]

GetHostCpuBits ==
    /\ op = "init"
    /\ op' = "_get_host_cpu"
    /\ res' = get_host_cpu_bits(build, arg)
    /\ host_cpu' = _get_host_cpu(build, arg)
    /\ host_name' = host_cpu_name(build, host_cpu', "generic")
    /\ UNCHANGED <<build, arg>>

NextHostBits == GetHostCpuBits

SpecHostBits == InitHostBits /\ [][NextHostBits]_vars

\* C23 as stated: the vector host discovery returns has no bit of the third
\* 32-bit word.
C23_NoThirdWordBit ==
    op = "_get_host_cpu" => \A bit \in res.second : bit < 64

\* C23, amended: the vector host discovery returns contains only bits some
\* feature names (every other bit is cleared by the last statement), and
\* every named bit set before the last statement, those of the third word
\* included, is still set.
C23_OnlyNamedBits ==
    op = "_get_host_cpu"
    => /\ res.second \subseteq FeatureBits(build, feature_masks(build))
       /\ res.second = res.unmasked \cap FeatureBits(build, feature_masks(build))
       /\ res.second = FeatureBits(build, host_cpu.second)

\* A stray HWCAP bit was dropped and a bit of the third word was kept.
C23_Witness ==
    /\ op = "_get_host_cpu"
    /\ 0 \in res.unmasked
    /\ 0 \notin res.second
    /\ \E bit \in res.second : bit >= 64

(***************************************************************************)
(* SpecShrink: shrink_big_little on candidate lists of at most MaxList     *)
(* elements.  An element is a pair (first: the CPU, second: its place in   *)
(* the list handed in, standing for the CPUID).                            *)
(***************************************************************************)
MaxList == 3

\* CPUs of the lists: members of v8order, of v7order and of neither.
ShrinkNames == {"arm_cortex_a53", "arm_cortex_a72", "arm_neoverse_n2",
                "arm_cortex_a7", "arm_cortex_a15", "apple_m1"}

ShrinkLists ==
    UNION {[1..n -> ShrinkNames] : n \in 0..MaxList}

InitShrink ==
    /\ build \in ProcessBuilds
    /\ host_cpu = NoHost
    /\ host_name = "generic"
    /\ op = "init"
    /\ \E names \in ShrinkLists, order \in {v8order, v7order} :
          arg = [list |-> SeqOf([i \in 1..Len(names) |-> [first |-> names[i], second |-> i]],
                                Len(names)),
                 order |-> order]
    /\ res = arg.list

ShrinkBigLittle ==
    /\ op = "init"
    /\ op' = "shrink_big_little"
    /\ res' = shrink_big_little(arg.list, arg.order)
    /\ UNCHANGED <<build, host_cpu, host_name, arg>>

NextShrink == ShrinkBigLittle

SpecShrink == InitShrink /\ [][NextShrink]_vars

\* The places of arg.order (counted from 0) that elements of arg.list have.
ShrinkIndices ==
    {i \in 0..(Len(arg.order) - 1) :
        \E k \in 1..Len(arg.list) : arg.list[k].first = arg.order[i + 1]}

\* Whether the element e of arg.list is to be kept: it is no member of the
\* order array, or no element of the list has a higher place in it.
ShrinkKeeps(e) ==
    \A i \in ShrinkIndices : arg.order[i + 1] = e.first => \A j \in ShrinkIndices : j <= i

\* C24: the result of shrink_big_little(list, order) is the list of the
\* elements that are no members of order or have the highest place in order
\* among the elements, in the order of the list; without members the list is
\* unchanged, and a list that is not empty never becomes empty.
C24_KeepsHighest ==
    op = "shrink_big_little"
    => /\ res = SelectSeq(arg.list, ShrinkKeeps)
       /\ (ShrinkIndices = {} => res = arg.list)
       /\ (arg.list # <<>> => res # <<>>)
       /\ \A k \in 1..(Len(res) - 1) : res[k].second < res[k + 1].second

\* A list of a little core, a CPU outside the order array and a big core
\* lost the little core only.
C24_Witness ==
    /\ op = "shrink_big_little"
    /\ arg.order = v8order
    /\ Len(arg.list) = 3
    /\ arg.list[1].first = "arm_cortex_a53"
    /\ arg.list[2].first = "apple_m1"
    /\ arg.list[3].first = "arm_cortex_a72"
    /\ res = <<arg.list[2], arg.list[3]>>

(***************************************************************************)
(* SpecScan: the loop of _get_host_cpu over the detected CPUIDs, run on    *)
(* the CPUIDs of at most MaxCores cores in every order.                    *)
(***************************************************************************)
MaxCores == 3

ScanCores == {CoreA53, CoreA72, CoreN2, CoreA7, CoreUnknown}

\* The sequences of at most MaxCores different cores.
ScanOrders ==
    UNION {{s \in [1..n -> ScanCores] : \A i, j \in 1..n : s[i] = s[j] => i = j} :
           n \in 0..MaxCores}

\* A CPUID get_cpu_name does not know is skipped.
cpuinfo_loop_SkipsUnknown(b, arch, infos) ==
    scan_cpuinfo(b, arch, SelectSeq(infos, LAMBDA info : get_cpu_name(info) # "generic"),
                 [extra_initialized |-> FALSE, extra_features |-> {},
                  cpus |-> {}, list |-> <<>>])

\* The loop from its first state: cpus and list empty, extra_features not
\* initialized.
cpuinfo_loop(b, arch, infos) ==
    scan_cpuinfo(b, arch, infos,
                 [extra_initialized |-> FALSE, extra_features |-> {},
                  cpus |-> {}, list |-> <<>>])

InitScan ==
    /\ build \in AuxvBuilds
    /\ host_cpu = NoHost
    /\ host_name = "generic"
    /\ op = "init"
    /\ \E infos \in ScanOrders,
          machine \in (IF IsAArch64(build) THEN {"aarch64"} ELSE {"armv7l", "armv8l"}) :
          arg = [infos |-> SeqOf(infos, Len(infos)),
                 os |-> [brand |-> {},
                         hwcap |-> IF IsAArch64(build) THEN {3, 7, 31} ELSE {12, 13},
                         hwcap2 |-> {},
                         cpuinfo |-> {infos[i] : i \in 1..Len(infos)},
                         machine |-> machine]]
    /\ res = [extra_features |-> {}, list |-> <<>>]

ScanCpuinfo ==
    /\ op = "init"
    /\ op' = "_get_host_cpu"
    /\ res' = [extra_features |->
                   cpuinfo_loop(build, get_elf_arch(build, arg.os.machine),
                                arg.infos).extra_features,
               list |-> cpuinfo_loop(build, get_elf_arch(build, arg.os.machine),
                                     arg.infos).list]
    /\ host_cpu' = _get_host_cpu(build, arg.os)
    /\ host_name' = host_cpu_name(build, host_cpu', "generic")
    /\ UNCHANGED <<build, arg>>

NextScan == ScanCpuinfo

SpecScan == InitScan /\ [][NextScan]_vars

\* The names of the detected CPUIDs, "generic" for one that is unknown.
ScanNames == {get_cpu_name(arg.infos[i]) : i \in 1..Len(arg.infos)}

\* The CPUs that are known and pass the arch-version check.
ScanAccepted ==
    {name \in ScanNames \ {"generic"} :
        check_cpu_arch_ver(build, name, get_elf_arch(build, arg.os.machine))}

\* The features every accepted CPU has in the catalog; none without a CPU.
ScanCommon ==
    {fe \in feature_masks(build) :
        /\ ScanAccepted # {}
        /\ \A name \in ScanAccepted : fe \in cpus(build)[find_cpu(build, name)].features}

\* The features whose bits AT_HWCAP and AT_HWCAP2 have, and pauth for
\* HWCAP_PACG.
HwcapDerived ==
    {fe \in feature_masks(build) : FeatureBit(build, fe) \in hwcap_bits(arg.os)} \cup
    (IF IsAArch64(build) /\ 31 \in hwcap_bits(arg.os) THEN {"pauth"} ELSE {})

\* The class and version features AArch32 sets from the ELF architecture.
ElfArchDerived ==
    IF IsAArch64(build) THEN {}
    ELSE LET arch == get_elf_arch(build, arg.os.machine)
         IN  (IF arch.version >= 7 /\ arch.klass = "M" THEN {"mclass"} ELSE {}) \cup
             (IF arch.version >= 7 /\ arch.klass = "R" THEN {"rclass"} ELSE {}) \cup
             (IF arch.version >= 7 /\ arch.klass = "A" THEN {"aclass"} ELSE {}) \cup
             (IF arch.version = 8 THEN {"v8", "v7"} ELSE {}) \cup
             (IF arch.version = 7 THEN {"v7"} ELSE {})

\* The part of C25 on the extra features and the candidate list: the extra
\* features are those common to the accepted CPUs when every CPUID is known
\* and none when one is unknown, and the candidates are the accepted CPUs,
\* once each, in the order of their first CPUID.
ScanExtraAndList ==
    /\ res.extra_features = (IF "generic" \in ScanNames THEN {} ELSE ScanCommon)
    /\ {res.list[k].first : k \in 1..Len(res.list)} = ScanAccepted
    /\ Len(res.list) = Cardinality(ScanAccepted)
    /\ \A k \in 1..Len(res.list) :
          /\ get_cpu_name(res.list[k].second) = res.list[k].first
          /\ \E i \in 1..Len(arg.infos) : arg.infos[i] = res.list[k].second
    /\ res.extra_features
         = cpuinfo_loop(build, get_elf_arch(build, arg.os.machine),
                        SetToSeq(arg.os.cpuinfo)).extra_features

\* C25 as stated: in every iteration order the extra features and the
\* candidate list are as above, and with an unknown CPUID the host feature
\* vector has the HWCAP-derived bits only.
C25_UnknownLeavesHwcapOnly ==
    op = "_get_host_cpu"
    => /\ ScanExtraAndList
       /\ ("generic" \in ScanNames => host_cpu.second = HwcapDerived)

\* C25, amended: with an unknown CPUID the host feature vector has the bits
\* set before the loop only: the HWCAP-derived bits and, on AArch32, the
\* class and version bits of the ELF architecture.
C25_UnknownLeavesDetectedOnly ==
    op = "_get_host_cpu"
    => /\ ScanExtraAndList
       /\ host_cpu.second = HwcapDerived \cup ElfArchDerived \cup res.extra_features
       /\ ("generic" \in ScanNames => host_cpu.second = HwcapDerived \cup ElfArchDerived)

\* An unknown CPUID came after two known ones and the extra features are
\* empty.
C25_Witness ==
    /\ op = "_get_host_cpu"
    /\ arg.infos = <<CoreA72, CoreA53, CoreUnknown>>
    /\ res.extra_features = {}
    /\ Len(res.list) = 2

\* Two known CPUs and one the arch-version check rejects: the extra features
\* are those the two have in common.
C25_WitnessKnown ==
    /\ op = "_get_host_cpu"
    /\ arg.infos = <<CoreN2, CoreA7, CoreA53>>
    /\ res.extra_features # {}
    /\ res.extra_features = ScanCommon
    /\ Len(res.list) = 2

(***************************************************************************)
(* SpecProcfs: get_cpuinfo_procfs on files of at most MaxLines lines.  A   *)
(* line is a record (key: the text in front of the separators, "" for an   *)
(* empty line; text: what is left after the prefix and the separators).    *)
(***************************************************************************)
MaxLines == 4

\* The integer texts of the model with their values.
IntegerTexts == [t \in {"0x41", "0x1", "0xd03", "0x141"} |->
                    CASE t = "0x41" -> 65 [] t = "0x1" -> 1
                      [] t = "0xd03" -> 3331 [] t = "0x141" -> 321]

\* StringRef::getAsInteger(0, out) for an unsigned out with the greatest value
\* max: it returns true when the text is no integer or does not fit, and
\* writes out only when it returns false.
getAsInteger(text, max, out) ==
    IF text \in DOMAIN IntegerTexts /\ IntegerTexts[text] <= max
    THEN [ret |-> FALSE, out |-> IntegerTexts[text]]
    ELSE [ret |-> TRUE, out |-> out]

\* The lambda reset of get_cpuinfo_procfs.
reset(st) ==
    [cpuid |-> [implementer |-> 0, variant |-> 0, part |-> 0],
     impl |-> FALSE, part |-> FALSE, var |-> FALSE,
     res |-> IF st.impl /\ st.part THEN st.res \cup {st.cpuid} ELSE st.res]

\* The three try_read_procfs_line calls for one line that is not empty; the
\* first whose prefix the line starts with takes it.
try_read_procfs_line(line, st) ==
    IF line.key = "CPU implementer"
    THEN With(IF st.impl THEN reset(st) ELSE st, LAMBDA s1 :
         With(getAsInteger(line.text, 255, s1.cpuid.implementer), LAMBDA r :
             [s1 EXCEPT !.cpuid = [implementer |-> r.out, variant |-> s1.cpuid.variant,
                                   part |-> s1.cpuid.part],
                        !.impl = r.ret]))
    ELSE IF line.key = "CPU variant"
    THEN With(IF st.var THEN reset(st) ELSE st, LAMBDA s1 :
         With(getAsInteger(line.text, 255, s1.cpuid.variant), LAMBDA r :
             [s1 EXCEPT !.cpuid = [implementer |-> s1.cpuid.implementer, variant |-> r.out,
                                   part |-> s1.cpuid.part],
                        !.var = r.ret]))
    ELSE IF line.key = "CPU part"
    THEN With(IF st.part THEN reset(st) ELSE st, LAMBDA s1 :
         With(getAsInteger(line.text, 65535, s1.cpuid.part), LAMBDA r :
             [s1 EXCEPT !.cpuid = [implementer |-> s1.cpuid.implementer,
                                   variant |-> s1.cpuid.variant, part |-> r.out],
                        !.part = r.ret]))
    ELSE st

\* The loop over the lines of the file.
RECURSIVE read_lines(_, _)
read_lines(lines, st) ==
    IF lines = <<>> THEN st
    ELSE read_lines(Tail(lines),
                    IF Head(lines).key = "" THEN reset(st)
                    ELSE try_read_procfs_line(Head(lines), st))

\* get_cpuinfo_procfs(res) for an empty res: the set it leaves in res.
get_cpuinfo_procfs(file) ==
    reset(read_lines(file, [cpuid |-> [implementer |-> 0, variant |-> 0, part |-> 0],
                            impl |-> FALSE, part |-> FALSE, var |-> FALSE,
                            res |-> {}])).res

ProcfsLines ==
    {[key |-> "", text |-> ""],
     [key |-> "processor", text |-> "0x1"],
     [key |-> "CPU implementer", text |-> "0x41"],
     [key |-> "CPU implementer", text |-> "0x141"],
     [key |-> "CPU variant", text |-> "0x1"],
     [key |-> "CPU part", text |-> "0xd03"],
     [key |-> "CPU part", text |-> "?"]}

InitProcfs ==
    /\ build \in {b \in ProcessBuilds : b.os = "linux" /\ IsAArch64(b)}
    /\ host_cpu = NoHost
    /\ host_name = "generic"
    /\ op = "init"
    /\ \E n \in 0..MaxLines : \E file \in [1..n -> ProcfsLines] :
          arg = SeqOf(file, n)
    /\ res = {}

GetCpuinfoProcfs ==
    /\ op = "init"
    /\ op' = "get_cpuinfo_procfs"
    /\ res' = get_cpuinfo_procfs(arg)
    /\ UNCHANGED <<build, host_cpu, host_name, arg>>

NextProcfs == GetCpuinfoProcfs

SpecProcfs == InitProcfs /\ [][NextProcfs]_vars

\* The blocks of a file: the runs of lines between its empty lines.
RECURSIVE SplitBlocks(_, _, _)
SplitBlocks(lines, cur, acc) ==
    IF lines = <<>> THEN Append(acc, cur)
    ELSE IF Head(lines).key = "" THEN SplitBlocks(Tail(lines), <<>>, Append(acc, cur))
    ELSE SplitBlocks(Tail(lines), Append(cur, Head(lines)), acc)

\* The values of the lines of a block with the key that parse as integers
\* not greater than max.
BlockValues(block, key, max) ==
    {IntegerTexts[block[i].text] :
        i \in {j \in 1..Len(block) :
                  /\ block[j].key = key
                  /\ block[j].text \in DOMAIN IntegerTexts
                  /\ IntegerTexts[block[j].text] <= max}}

\* The CPUIDs a block stands for: an implementer and a part that parse, and
\* the variant, 0 when the block has none.
BlockCpuids(block) ==
    {[implementer |-> i, variant |-> v, part |-> p] :
        i \in BlockValues(block, "CPU implementer", 255),
        v \in (IF BlockValues(block, "CPU variant", 255) = {} THEN {0}
               ELSE BlockValues(block, "CPU variant", 255)),
        p \in BlockValues(block, "CPU part", 65535)}

\* C26: the reader's result has the CPUID of every block with a "CPU
\* implementer" and a "CPU part" line whose values parse, and nothing for a
\* block that lacks one of the two.
C26_BlocksWithImplAndPart ==
    op = "get_cpuinfo_procfs"
    => LET blocks == SplitBlocks(arg, <<>>, <<>>)
       IN  /\ \A k \in 1..Len(blocks) :
                  Cardinality(BlockCpuids(blocks[k])) = 1 => BlockCpuids(blocks[k]) \subseteq res
           /\ res \subseteq UNION {BlockCpuids(blocks[k]) : k \in 1..Len(blocks)}

\* What the code does with a block of an implementer and a part that parse:
\* nothing is inserted.
C26_GoodBlockLost ==
    /\ op = "get_cpuinfo_procfs"
    /\ arg = <<[key |-> "CPU implementer", text |-> "0x41"],
               [key |-> "CPU part", text |-> "0xd03"],
               [key |-> "", text |-> ""]>>
    /\ res = {}

\* What the code does with a block whose two values do not parse: the CPUID
\* (0, 0, 0) is inserted.
C26_BadBlockInserted ==
    /\ op = "get_cpuinfo_procfs"
    /\ arg = <<[key |-> "CPU implementer", text |-> "0x141"],
               [key |-> "CPU part", text |-> "?"]>>
    /\ res = {[implementer |-> 0, variant |-> 0, part |-> 0]}

(***************************************************************************)
(* SpecAuxv: jl_getauxval of a build with USE_DYN_GETAUXVAL, called at     *)
(* most MaxCalls times.  arg is the system: libc (whether libc exports     *)
(* getauxval), hwcap and hwcap2 (the entries of the auxiliary vector)      *)
(* readable (whether /proc/self/auxv can be opened) and auxv (the (type,   *)
(* value) pairs it holds).  res is a record:                               *)
(*   getauxval_p  the static function pointer: <<>> for NULL, else the     *)
(*                symbol it points to, <<"getauxval">>                     *)
(*   calls        one record (type, via, ret) per call made                *)
(***************************************************************************)
MaxCalls == 3

AT_HWCAP == 16

AT_HWCAP2 == 26

\* jl_dlsym(libc, "getauxval", &getauxval_p, 0): whether the symbol was found
\* and the pointer stored.
jl_dlsym(sys, symbol) ==
    IF symbol = "getauxval" /\ sys.libc
    THEN [ret |-> 1, value |-> <<symbol>>]
    ELSE [ret |-> 0, value |-> <<>>]

\* getauxval of libc, called through the pointer.
getauxval(sys, type) ==
    IF type = AT_HWCAP THEN sys.hwcap
    ELSE IF type = AT_HWCAP2 THEN sys.hwcap2
    ELSE 0

\* The read loop of getauxval_procfs from the pair at place i on.
RECURSIVE read_auxv(_, _, _)
read_auxv(auxv, type, i) ==
    IF i > Len(auxv) THEN 0
    ELSE IF auxv[i][1] = 0 THEN 0
    ELSE IF auxv[i][1] = type THEN auxv[i][2]
    ELSE read_auxv(auxv, type, i + 1)

getauxval_procfs(sys, type) ==
    IF ~sys.readable THEN 0 ELSE read_auxv(sys.auxv, type, 1)

\* jl_getauxval(type): the pointer afterwards, the way taken and the value
\* returned.  The pointer is looked up only while it is NULL.
jl_getauxval(sys, getauxval_p, type) ==
    IF getauxval_p = <<>>
    THEN With(jl_dlsym(sys, "getauxval"), LAMBDA found :
             IF found.ret # 0
             THEN [getauxval_p |-> found.value, via |-> "pointer",
                   ret |-> getauxval(sys, type)]
             ELSE [getauxval_p |-> found.value, via |-> "procfs",
                   ret |-> getauxval_procfs(sys, type)])
    ELSE [getauxval_p |-> getauxval_p, via |-> "procfs",
          ret |-> getauxval_procfs(sys, type)]

AuxvSystems ==
    UNION {{[libc |-> libc, hwcap |-> hwcap, hwcap2 |-> hwcap2,
             readable |-> readable, auxv |-> auxv] :
               readable \in BOOLEAN,
               auxv \in {<<<<AT_HWCAP, hwcap>>, <<0, 0>>, <<AT_HWCAP2, hwcap2>>>>,
                         <<<<AT_HWCAP, hwcap>>, <<AT_HWCAP2, hwcap2>>, <<0, 0>>>>}} :
           libc \in BOOLEAN, hwcap \in {0, 136}, hwcap2 \in {0, 2}}

InitAuxv ==
    /\ build \in {b \in ProcessBuilds : b.os = "linux" /\ IsAArch64(b)}
    /\ host_cpu = NoHost
    /\ host_name = "generic"
    /\ op = "init"
    /\ arg \in AuxvSystems
    /\ res = [getauxval_p |-> <<>>, calls |-> <<>>]

JlGetauxval ==
    /\ Len(res.calls) < MaxCalls
    /\ \E type \in {AT_HWCAP, AT_HWCAP2} :
          /\ (res.calls = <<>> => type = AT_HWCAP)
          /\ res' = [getauxval_p |-> jl_getauxval(arg, res.getauxval_p, type).getauxval_p,
                     calls |-> Append(res.calls,
                                  [type |-> type,
                                   via |-> jl_getauxval(arg, res.getauxval_p, type).via,
                                   ret |-> jl_getauxval(arg, res.getauxval_p, type).ret])]
    /\ op' = "jl_getauxval"
    /\ UNCHANGED <<build, host_cpu, host_name, arg>>

NextAuxv == JlGetauxval

SpecAuxv == InitAuxv /\ [][NextAuxv]_vars

\* C27: where libc exports getauxval, every call of jl_getauxval returns what
\* the call through the resolved pointer returns, and /proc/self/auxv is
\* read only where libc does not export it.
C27_EveryCallThroughPointer ==
    \A k \in 1..Len(res.calls) :
        /\ (arg.libc => res.calls[k].ret = getauxval(arg, res.calls[k].type))
        /\ (res.calls[k].via = "procfs" => ~arg.libc)

\* What the code does on a system with getauxval in libc and no readable
\* /proc/self/auxv: the first call answers AT_HWCAP through the pointer, the
\* second reads procfs and answers 0 for AT_HWCAP2.
C27_SecondCallReadsProcfs ==
    /\ arg.libc
    /\ arg.hwcap2 = 2
    /\ ~arg.readable
    /\ Len(res.calls) = 2
    /\ res.calls[1] = [type |-> AT_HWCAP, via |-> "pointer", ret |-> arg.hwcap]
    /\ res.calls[2] = [type |-> AT_HWCAP2, via |-> "procfs", ret |-> 0]

(***************************************************************************)
(* Claims on the JIT target list and on the emitter's "+" tokens           *)
(* (SpecProcess).                                                          *)
(***************************************************************************)
\* C28: the first JIT target has only features the host has, and every
\* later JIT target has the features that resolving its command line entry
\* without the host gives.
C28_FirstTargetWithinHost ==
    /\ (res.jit_targets # <<>> => res.jit_targets[1].en.features \subseteq host_cpu.second)
    /\ \A i \in 2..Len(res.jit_targets) :
          res.jit_targets[i].en.features
            = arg_target_data(build, host_cpu, host_name, res.cmdline[i], FALSE).en.features

\* sysimg_init_cb has published a first target whose command line entry,
\* resolved without the host, has a feature the host lacks.
C28_Witness ==
    /\ op = "jl_init_processor_sysimg"
    /\ Len(res.jit_targets) = 1
    /\ res.jit_targets[1].en.features \subseteq host_cpu.second
    /\ ~(arg_target_data(build, host_cpu, host_name, res.cmdline[1], FALSE).en.features
           \subseteq host_cpu.second)

\* ensure_jit_target has made a list whose first target is within the host
\* and whose second target has a feature the host lacks.
C28_WitnessLater ==
    /\ Len(res.jit_targets) = 2
    /\ res.jit_targets[1].en.features \subseteq host_cpu.second
    /\ ~(res.jit_targets[2].en.features \subseteq host_cpu.second)

\* C29: in every JIT target, a feature that is set has its prerequisite of
\* every dependency edge set.
C29_TargetsDownwardClosed ==
    \A i \in 1..Len(res.jit_targets) : \A k \in 1..Len(deps(build)) :
        test_nbit(res.jit_targets[i].en.features, deps(build)[k].enable)
        => test_nbit(res.jit_targets[i].en.features, deps(build)[k].dep)

\* What the code does on AArch32: sysimg_init_cb has published a target with
\* crypto set and neon clear.
C29_CryptoWithoutNeon ==
    /\ ~IsAArch64(build)
    /\ op = "jl_init_processor_sysimg"
    /\ Len(res.jit_targets) = 1
    /\ test_nbit(res.jit_targets[1].en.features, "crypto")
    /\ ~test_nbit(res.jit_targets[1].en.features, "neon")

\* The emitted feature lists of the last call, each with the disable.features
\* of its target.
EmittedWithDisabled ==
    IF res.ret.tag = "target"
    THEN {[strs |-> res.ret.val.target.second, dis |-> res.jit_targets[1].dis.features]}
    ELSE IF res.ret.tag = "specs"
    THEN {[strs |-> res.ret.val[i].cpu.second, dis |-> res.ret.val[i].data.features_dis] :
             i \in 1..Len(res.ret.val)}
    ELSE {}

\* C30: no emitted list has "+name" for a feature of its target's
\* disable.features, and none has both "+name" and "-name" of one feature.
C30_NoPlusForDisabled ==
    \A e \in EmittedWithDisabled : \A i \in 1..nfeature_names(build) :
        /\ test_nbit(e.dis, feature_names(build)[i].fe)
           => \A k \in 1..Len(e.strs) :
                 e.strs[k] # FeatureStr("+", feature_names(build)[i].name)
        /\ ~\E k, l \in 1..Len(e.strs) :
              /\ e.strs[k] = FeatureStr("+", feature_names(build)[i].name)
              /\ e.strs[l] = FeatureStr("-", feature_names(build)[i].name)

\* What the code does with a "-feat" on an architecture alias: the target of
\* "armv8.1-a,-lse" has lse in its disable.features and "+lse" is emitted.
C30_RemovedFeatureEmitted ==
    /\ IsAArch64(build)
    /\ res.ret.tag = "target"
    /\ res.jit_targets[1].name = "armv8.1-a"
    /\ test_nbit(res.jit_targets[1].dis.features, "lse")
    /\ \E k \in 1..Len(res.ret.val.target.second) :
          res.ret.val.target.second[k] = FeatureStr("+", "lse")

====
